---- MODULE Spec2Model ----
(***************************************************************************)
(* Model of the cross-account message copy pipeline of the mail server     *)
(* (crates/jmap/src/email/copy.rs: JMAP::email_copy, JMAP::copy_message)   *)
(* together with the storage collaborator it calls (change-id counter,     *)
(* change log, document-id allocation, blob links, atomic batch write).    *)
(* Every await point of the two functions is one action, so that           *)
(* concurrent calls interleave exactly where the code can be suspended.    *)
(***************************************************************************)
EXTENDS Integers, Sequences, FiniteSets, TLC

\* ---------------------------------------------------------------- bounds

\* Longest request.create list of a call that runs alone.
MaxItems == 2
\* Longest request.create list of a call that runs concurrently with another.
MaxConcItems == 1
\* The byte quota of the target account when it is limited (0 = unlimited).
QuotaLimit == 3
\* The calls of blob_upload that may run.
MaxUploads == 2
\* Most members of the object a WebSocket message holds.
MaxMembers == 3

\* ------------------------------------------------------------ environment

Procs == {1, 2}
Accounts == {1, 2}
\* The account every call copies into (request.account_id).
TargetAccounts == {2}

None == <<>>
Some(v) == <<v>>
IsSome(o) == Len(o) = 1
Unwrap(o) == o[1]

\* State::Initial and State::Exact(id)
Initial == [exact |-> FALSE, id |-> 0]
Exact(n) == [exact |-> TRUE, id |-> n]
\* The order of states: Initial is below every Exact, Exact by change id.
StateLeq(s, t) == (~s.exact) \/ (t.exact /\ s.id <= t.id)
StateLt(s, t) == StateLeq(s, t) /\ s # t

\* Id::from_parts(prefix, document): the two 32-bit halves of a 64-bit id.
\* A bare document id is the id with prefix 0.
IdFromParts(prefix_id, document_id) == <<prefix_id, document_id>>
DocId(document_id) == <<0, document_id>>
DocumentIdOf(id) == id[2]

MaxOf(S) == CHOOSE x \in S : \A y \in S : y <= x
MinOf(S) == CHOOSE x \in S : \A y \in S : x <= y
Range(s) == {s[i] : i \in 1..Len(s)}
Contains(s, x) == x \in Range(s)
Retain(s, x) == SelectSeq(s, LAMBDA y : y # x)
RECURSIVE SumSizes(_)
SumSizes(S) == IF S = {} THEN 0 ELSE LET e == CHOOSE x \in S : TRUE IN e.metadata.size + SumSizes(S \ {e})

\* The source account's messages: metadata (BodyStructure property) and
\* term index of a message, None when the document has none.
SourceMetadata(from_account_id, id) ==
    IF from_account_id # 1 THEN None
    ELSE CASE id = 1 -> Some([size |-> 1, references |-> <<"a">>, received_at |-> None])
           [] id = 2 -> Some([size |-> 2, references |-> <<>>, received_at |-> None])
           [] OTHER -> None
\* owned_or_shared_messages(access_token, from_account_id, ReadItems)
ReadableMessages(from_account_id) == IF from_account_id = 1 THEN {1, 2, 3} ELSE {}
\* mailbox_get_or_create(account_id): the mailboxes of the target account.
ExistingMailboxes == {1, 2}
\* shared_documents(access_token, account_id, Mailbox, AddItems)
AddItemsMailboxes == {1}

\* ---------------------------------------------------------------- request

\* One (property, value) pair of a create object.  kind is the shape of the
\* value: "List", "Patch" (ids[1] with flag), "Date", "Text", or
\* "UnresolvedRef" for a value whose reference eval_object_references
\* cannot resolve.
Prop(property, kind, ids, flag) == [property |-> property, kind |-> kind, ids |-> ids, flag |-> flag]

CreateItem(id, properties) == [id |-> id, properties |-> properties]
\* mailboxIds [1]
ItemPlain == CreateItem(1, <<Prop("MailboxIds", "List", <<1>>, FALSE)>>)
\* mailboxIds [1] then the patch mailboxIds/2 = true, a keyword, receivedAt
ItemPatched == CreateItem(2, <<Prop("MailboxIds", "List", <<1>>, FALSE),
                         Prop("MailboxIds", "Patch", <<2>>, TRUE),
                         Prop("Keywords", "List", <<7>>, FALSE),
                         Prop("ReceivedAt", "Date", <<5>>, FALSE)>>)
\* a readable source id whose metadata is gone
ItemNoMetadata == CreateItem(3, <<Prop("MailboxIds", "List", <<2>>, FALSE)>>)
\* a source id the caller may not read
ItemUnreadable == CreateItem(4, <<Prop("MailboxIds", "List", <<1>>, FALSE)>>)
ItemUnresolvedRef == CreateItem(1, <<Prop("MailboxIds", "List", <<1>>, FALSE),
                               Prop("Keywords", "UnresolvedRef", <<>>, FALSE)>>)
ItemInvalidProperty == CreateItem(2, <<Prop("MailboxIds", "List", <<1>>, FALSE),
                                 Prop("Subject", "Text", <<>>, FALSE)>>)
\* patches that remove every mailbox again
ItemNoMailbox == CreateItem(1, <<Prop("MailboxIds", "List", <<1, 2>>, FALSE),
                           Prop("MailboxIds", "Patch", <<1>>, FALSE),
                           Prop("Keywords", "Patch", <<7>>, TRUE),
                           Prop("Keywords", "Patch", <<7>>, FALSE),
                           Prop("MailboxIds", "Patch", <<2>>, FALSE)>>)
\* mailbox 3 does not exist
ItemUnknownMailbox == CreateItem(2, <<Prop("MailboxIds", "List", <<1, 3>>, FALSE)>>)

ItemCatalog == {ItemPlain, ItemPatched, ItemNoMetadata, ItemUnreadable, ItemUnresolvedRef,
                ItemInvalidProperty, ItemNoMailbox, ItemUnknownMailbox}
\* The items a caller that owns the target account can copy.
ValidItems == {ItemPlain, ItemPatched}

\* request.create is a map: its keys (the source ids) are pairwise distinct.
DistinctIds(create) == \A i, j \in 1..Len(create) : i # j => create[i].id # create[j].id
CreateLists(items, n) == {c \in UNION {[1..k -> items] : k \in 0..n} : DistinctIds(c)}

IfInStates == {None, Some(Initial), Some(Exact(1))}

Request(account_id, from_account_id, if_in_state, create, on_success, destroy_state) ==
    [account_id |-> account_id, from_account_id |-> from_account_id,
     if_in_state |-> if_in_state, create |-> create,
     on_success_destroy_original |-> on_success,
     destroy_from_if_in_state |-> destroy_state]

\* The requests of a call that runs alone.
Requests ==
    { Request(a, f, s, c, d, ds) :
        a \in TargetAccounts, f \in Accounts, s \in IfInStates,
        c \in CreateLists(ItemCatalog, MaxItems),
        d \in {None, Some(TRUE)}, ds \in {None, Some(Exact(9))} }

\* The requests of calls that run concurrently on one target account.
ConcurrentRequests ==
    { Request(a, 1, s, c, None, None) :
        a \in TargetAccounts, s \in {None, Some(Initial)},
        c \in CreateLists(ValidItems, MaxConcItems) \ {<<>>} }

\* ------------------------------------------------------------------ state

VARIABLES
    \* --- the storage collaborator, per account
    change_id,      \* last change id handed out by assign_change_id
    changes,        \* the committed change log: entries [change_id, collection, kind, id]
    emails,         \* the committed Email documents with their indexed values
    threads,        \* the committed Thread documents
    document_ids,   \* last document id handed out, per collection
    blobs,          \* the linked blobs [account_id, document_id]
    \* --- one email_copy call per process
    request,        \* the CopyRequest of the call
    access_token,   \* the caller: [is_shared, quota]
    pc,             \* where the call is suspended
    env,            \* from_message_ids, mailbox_ids, can_add_mailbox_ids, account_quota
    response,       \* the CopyResponse being built
    destroy_ids,
    next_call,
    frame,          \* the locals of the item being copied (copy_message)
    result,         \* what the call returned: None while it runs
    \* --- history
    ops,            \* the storage operations each call has issued
    committed,      \* per account, the change ids whose batch store.write committed
    \* --- blob_upload: the configuration, the collaborators and one call per slot
    config,         \* upload_tmp_quota_size, upload_tmp_quota_amount, concurrent_uploads
    in_flight,      \* per principal, the counter of the concurrency limiter
    tmp_blobs,      \* per account, the temporary blobs put_blob has stored
    upload,         \* the arguments of the call: access_token, account_id, data
    upload_pc,      \* where the call is suspended
    guard,          \* whether the call's _in_flight guard holds a slot of the limiter
    upload_result,  \* what the call returned: None while it runs
    upload_ops,     \* the storage operations the call has issued, in order
    \* --- WebSocketMessage::parse: its arguments and what it returned
    json,           \* the bytes received: the members of the object and its whitespace
    max_calls,
    max_size,
    ws_pc,
    message         \* the Result of parse: None until it has run

store_vars == <<change_id, changes, emails, threads, document_ids, blobs>>
copy_vars == <<change_id, changes, emails, threads, document_ids, blobs,
               request, access_token, pc, env, response, destroy_ids, next_call, frame, result,
               ops, committed>>
upload_vars == <<config, in_flight, tmp_blobs, upload, upload_pc, guard, upload_result,
                 upload_ops>>
ws_vars == <<json, max_calls, max_size, ws_pc, message>>
vars == <<copy_vars, upload_vars, ws_vars>>

Collections == {"Email", "Mailbox", "Thread"}

\* A change-log entry as the ChangeCollector holds it, and as committed.
Entry(kind, collection, id) == [kind |-> kind, collection |-> collection, id |-> id]
Committed(cid, e) == [change_id |-> cid, kind |-> e.kind, collection |-> e.collection, id |-> e.id]

\* ------------------------------------------------- storage collaborator

\* get_state(account, collection): the latest change id committed to the
\* change log for the collection, Initial when there is none.
StateOf(log, collection) ==
    LET ids == {e.change_id : e \in {x \in log : x.collection = collection}}
    IN  IF ids = {} THEN Initial ELSE Exact(MaxOf(ids))
GetState(account_id, collection) == StateOf(changes[account_id], collection)

\* assert_state(account, collection, if_in_state): the current state, or the
\* state-conflict error when a supplied if_in_state differs from it.
AssertStateOf(account_id, collection, if_in_state) ==
    LET state == GetState(account_id, collection)
    IN  IF IsSome(if_in_state) /\ Unwrap(if_in_state) # state
        THEN [ok |-> FALSE, state |-> state]
        ELSE [ok |-> TRUE, state |-> state]

\* get_used_quota(account): the bytes of the account's committed messages.
GetUsedQuota(account_id) == SumSizes(emails[account_id])

\* find_or_merge_thread(account, subject, references): the smallest thread id
\* among the account's messages that share a reference token, if any.
FindOrMergeThread(account_id, references) ==
    LET found == {e.thread_id : e \in {x \in emails[account_id] :
                                          Range(x.metadata.references) \cap Range(references) # {}}}
    IN  IF found = {} THEN None ELSE Some(MinOf(found))

\* store.write(batch): every operation of the batch becomes visible at once.
WriteBatch(batch) ==
    /\ emails' = [emails EXCEPT ![batch.account_id] = @ \cup {batch.email}]
    /\ threads' = [threads EXCEPT ![batch.account_id] = @ \cup Range(batch.create_thread)]
    /\ changes' = [changes EXCEPT ![batch.account_id] =
                       @ \cup {Committed(batch.change_id, e) : e \in batch.log}]

\* The stores a call can find: an empty target account, or one that already
\* holds message 1 in thread 1 and mailbox 1, committed as change 1.
SeedEmail ==
    [document_id |-> 1, thread_id |-> 1, mailboxes |-> <<1>>, keywords |-> <<>>, cid |-> 1,
     metadata |-> [size |-> 1, references |-> <<"a">>, received_at |-> None],
     term_index |-> <<1, 1>>]
SeedLog ==
    {Committed(1, Entry("insert", "Thread", DocId(1))),
     Committed(1, Entry("insert", "Email", IdFromParts(1, 1))),
     Committed(1, Entry("child_update", "Mailbox", DocId(1)))}
PerAccount(target, other) == [a \in Accounts |-> IF a \in TargetAccounts THEN target ELSE other]
EmptyStore ==
    [change_id |-> PerAccount(0, 0), changes |-> PerAccount({}, {}),
     emails |-> PerAccount({}, {}), threads |-> PerAccount({}, {}),
     document_ids |-> PerAccount([Email |-> 0, Thread |-> 0], [Email |-> 0, Thread |-> 0]),
     committed |-> PerAccount({}, {})]
SeededStore ==
    [change_id |-> PerAccount(1, 0), changes |-> PerAccount(SeedLog, {}),
     emails |-> PerAccount({SeedEmail}, {}), threads |-> PerAccount({1}, {}),
     document_ids |-> PerAccount([Email |-> 1, Thread |-> 1], [Email |-> 0, Thread |-> 0]),
     committed |-> PerAccount({1}, {})]
InitialStores == {EmptyStore, SeededStore}

\* ------------------------------------------------------------ the calls

NoRequest == Request(2, 1, None, <<>>, None, None)
NoEnv == [from_message_ids |-> {}, mailbox_ids |-> {}, can_add_mailbox_ids |-> None,
          on_success_delete |-> FALSE, account_quota |-> 0]
NoResponse == [from_account_id |-> 0, account_id |-> 0, new_state |-> Initial,
               old_state |-> Initial, created |-> <<>>, not_created |-> <<>>,
               state_change |-> None]
NoFrame == [i |-> 0, mailboxes |-> <<>>, keywords |-> <<>>, received_at |-> None,
            metadata |-> None, thread_id |-> None, message_id |-> 0, change_id |-> 0,
            log |-> {}, create_thread |-> None]
Tokens == [is_shared : BOOLEAN, quota : {0, QuotaLimit}]

InitStore(s) ==
    /\ change_id = s.change_id
    /\ changes = s.changes
    /\ emails = s.emails
    /\ threads = s.threads
    /\ document_ids = s.document_ids
    /\ committed = s.committed
    /\ blobs = {}

InitCalls ==
    /\ env = [p \in Procs |-> NoEnv]
    /\ response = [p \in Procs |-> NoResponse]
    /\ destroy_ids = [p \in Procs |-> <<>>]
    /\ next_call = [p \in Procs |-> None]
    /\ frame = [p \in Procs |-> NoFrame]
    /\ result = [p \in Procs |-> None]
    /\ ops = [p \in Procs |-> {}]

\* One call running alone, with any request and any caller.
InitAlone ==
    /\ \E r \in Requests : request = [p \in Procs |-> IF p = 1 THEN r ELSE NoRequest]
    /\ \E t \in Tokens : access_token = [p \in Procs |-> t]
    /\ pc = [p \in Procs |-> IF p = 1 THEN "start" ELSE "idle"]

\* Two calls of the account's owner running concurrently on one target account.
InitConcurrent ==
    /\ request \in [Procs -> ConcurrentRequests]
    /\ \E q \in {0, QuotaLimit} : access_token = [p \in Procs |-> [is_shared |-> FALSE, quota |-> q]]
    /\ pc = [p \in Procs |-> "start"]


\* ------------------------------------------------------- item validation

SetError(type, property) == [type |-> type, property |-> property]
NotCreated(id, err) == [id |-> id, error |-> err]

\* One turn of the property loop of email_copy.  acc carries mailboxes,
\* keywords, received_at and the first error met.
ApplyProperty(acc, pv) ==
    IF pv.kind = "UnresolvedRef"
    THEN [acc EXCEPT !.error = Some(SetError("invalidResultReference", pv.property))]
    ELSE CASE pv.property = "MailboxIds" /\ pv.kind = "List" ->
                  [acc EXCEPT !.mailboxes = pv.ids]
           [] pv.property = "MailboxIds" /\ pv.kind = "Patch" ->
                  IF pv.flag
                  THEN IF Contains(acc.mailboxes, pv.ids[1]) THEN acc
                       ELSE [acc EXCEPT !.mailboxes = Append(@, pv.ids[1])]
                  ELSE [acc EXCEPT !.mailboxes = Retain(@, pv.ids[1])]
           [] pv.property = "Keywords" /\ pv.kind = "List" ->
                  [acc EXCEPT !.keywords = pv.ids]
           [] pv.property = "Keywords" /\ pv.kind = "Patch" ->
                  IF pv.flag
                  THEN IF Contains(acc.keywords, pv.ids[1]) THEN acc
                       ELSE [acc EXCEPT !.keywords = Append(@, pv.ids[1])]
                  ELSE [acc EXCEPT !.keywords = Retain(@, pv.ids[1])]
           [] pv.property = "ReceivedAt" /\ pv.kind = "Date" ->
                  [acc EXCEPT !.received_at = Some(pv.ids[1])]
           [] OTHER ->
                  [acc EXCEPT !.error = Some(SetError("invalidProperties", pv.property))]

RECURSIVE EvalProperties(_, _, _)
EvalProperties(properties, k, acc) ==
    IF k > Len(properties) \/ IsSome(acc.error) THEN acc
    ELSE EvalProperties(properties, k + 1, ApplyProperty(acc, properties[k]))

\* Faulty variant of CheckMailboxes: only the existence of a mailbox is looked at.
CheckMailboxesExisting(mailboxes, k, mailbox_ids, can_add_mailbox_ids) ==
    IF \E j \in k..Len(mailboxes) : mailboxes[j] \notin mailbox_ids
    THEN Some(SetError("invalidProperties", "MailboxIds"))
    ELSE None

\* The mailbox loop: the first mailbox that does not exist or that the
\* caller may not add to decides the error.
RECURSIVE CheckMailboxes(_, _, _, _)
CheckMailboxes(mailboxes, k, mailbox_ids, can_add_mailbox_ids) ==
    IF k > Len(mailboxes) THEN None
    ELSE IF mailboxes[k] \notin mailbox_ids
         THEN Some(SetError("invalidProperties", "MailboxIds"))
         ELSE IF IsSome(can_add_mailbox_ids) /\ mailboxes[k] \notin Unwrap(can_add_mailbox_ids)
              THEN Some(SetError("forbidden", ""))
              ELSE CheckMailboxes(mailboxes, k + 1, mailbox_ids, can_add_mailbox_ids)

\* Everything email_copy checks of one item before it calls copy_message:
\* the evaluated properties with the error of the first failed check.
ValidateItem(item, e) ==
    LET start == [mailboxes |-> <<>>, keywords |-> <<>>, received_at |-> None, error |-> None]
        acc == EvalProperties(item.properties, 1, start)
    IN  IF item.id \notin e.from_message_ids
        THEN [start EXCEPT !.error = Some(SetError("notFound", ""))]
        ELSE IF IsSome(acc.error) THEN acc
        ELSE IF acc.mailboxes = <<>>
             THEN [acc EXCEPT !.error = Some(SetError("invalidProperties", "MailboxIds"))]
             ELSE [acc EXCEPT !.error =
                       CheckMailboxes(acc.mailboxes, 1, e.mailbox_ids, e.can_add_mailbox_ids)]

\* ---------------------------------------------------------------- actions

Item(p) == request[p].create[frame[p].i]
\* Where the call goes once item i is done: the next item, or the end.
AfterItem(p, i) == IF i > Len(request[p].create) THEN "finish" ELSE "loop"

\* A `?` that returns the method error err: the call ends there.
Abort(p, err) ==
    /\ pc' = [pc EXCEPT ![p] = "done"]
    /\ result' = [result EXCEPT ![p] = Some(err)]

Issue(p, op) == ops' = [ops EXCEPT ![p] = @ \cup {op}]

\* Faulty variant of EmailCopy: the comparison of the account ids is missing.
EmailCopyUnchecked(p) ==
    /\ pc[p] = "start"
    /\ pc' = [pc EXCEPT ![p] = "assert_state"]
    /\ UNCHANGED <<store_vars, request, access_token, env, response, destroy_ids, next_call,
                   frame, result, ops, committed>>

\* email_copy, entry: the two account ids are compared before anything else.
EmailCopy(p) ==
    /\ pc[p] = "start"
    /\ IF request[p].account_id = request[p].from_account_id
       THEN Abort(p, "InvalidArguments")
       ELSE /\ pc' = [pc EXCEPT ![p] = "assert_state"]
            /\ UNCHANGED result
    /\ UNCHANGED <<store_vars, request, access_token, env, response, destroy_ids, next_call,
                   frame, ops, committed>>

\* Faulty variant of AssertState: the state conflict is not propagated.
AssertStateUnchecked(p) ==
    /\ pc[p] = "assert_state"
    /\ Issue(p, "get_state")
    /\ \E stored \in BOOLEAN :
        LET r == AssertStateOf(request[p].account_id, "Email", request[p].if_in_state)
        IN  IF ~stored
            THEN Abort(p, "StoreError") /\ UNCHANGED response
            ELSE /\ response' = [response EXCEPT ![p] =
                        [from_account_id |-> request[p].from_account_id,
                         account_id |-> request[p].account_id,
                         new_state |-> r.state, old_state |-> r.state,
                         created |-> <<>>, not_created |-> <<>>, state_change |-> None]]
                 /\ pc' = [pc EXCEPT ![p] = "prelude"]
                 /\ UNCHANGED result
    /\ UNCHANGED <<store_vars, request, access_token, env, destroy_ids, next_call, frame,
                   committed>>

\* assert_state(account_id, Email, if_in_state), then the empty response.
AssertState(p) ==
    /\ pc[p] = "assert_state"
    /\ Issue(p, "get_state")
    /\ \E stored \in BOOLEAN :
        LET r == AssertStateOf(request[p].account_id, "Email", request[p].if_in_state)
        IN  IF ~stored
            THEN Abort(p, "StoreError") /\ UNCHANGED response
            ELSE IF ~r.ok
            THEN Abort(p, "StateMismatch") /\ UNCHANGED response
            ELSE /\ response' = [response EXCEPT ![p] =
                        [from_account_id |-> request[p].from_account_id,
                         account_id |-> request[p].account_id,
                         new_state |-> r.state, old_state |-> r.state,
                         created |-> <<>>, not_created |-> <<>>, state_change |-> None]]
                 /\ pc' = [pc EXCEPT ![p] = "prelude"]
                 /\ UNCHANGED result
    /\ UNCHANGED <<store_vars, request, access_token, env, destroy_ids, next_call, frame,
                   committed>>

\* The readable source messages, the target's mailboxes, the caller's
\* AddItems mailboxes when the target is shared with it, and the quota.
Prelude(p) ==
    /\ pc[p] = "prelude"
    /\ Issue(p, "read")
    /\ \E stored \in BOOLEAN :
        IF ~stored
        THEN Abort(p, "StoreError") /\ UNCHANGED <<env, frame>>
        ELSE /\ env' = [env EXCEPT ![p] =
                    [from_message_ids |-> ReadableMessages(request[p].from_account_id),
                     mailbox_ids |-> ExistingMailboxes,
                     can_add_mailbox_ids |->
                         IF access_token[p].is_shared THEN Some(AddItemsMailboxes) ELSE None,
                     on_success_delete |->
                         IF IsSome(request[p].on_success_destroy_original)
                         THEN Unwrap(request[p].on_success_destroy_original) ELSE FALSE,
                     account_quota |-> access_token[p].quota]]
             /\ frame' = [frame EXCEPT ![p] = [NoFrame EXCEPT !.i = 1]]
             /\ pc' = [pc EXCEPT ![p] = AfterItem(p, 1)]
             /\ UNCHANGED result
    /\ UNCHANGED <<store_vars, request, access_token, response, destroy_ids, next_call,
                   committed>>

\* Faulty variant of RejectItem: the item's error ends the whole call.
RejectItemAborts(p, err) ==
    /\ response' = [response EXCEPT ![p].not_created = Append(@, NotCreated(Item(p).id, err))]
    /\ Abort(p, err.type)
    /\ UNCHANGED <<destroy_ids, frame>>

\* Faulty variant of RejectItem: the loop continues without recording the error.
RejectItemSilently(p, err) ==
    /\ frame' = [frame EXCEPT ![p] = [NoFrame EXCEPT !.i = frame[p].i + 1]]
    /\ pc' = [pc EXCEPT ![p] = AfterItem(p, frame[p].i + 1)]
    /\ UNCHANGED <<response, destroy_ids, result>>

\* The item is done without copy_message having been called: its error goes
\* to not_created and the loop continues with the next item.
RejectItem(p, err) ==
    /\ response' = [response EXCEPT ![p].not_created = Append(@, NotCreated(Item(p).id, err))]
    /\ frame' = [frame EXCEPT ![p] = [NoFrame EXCEPT !.i = frame[p].i + 1]]
    /\ pc' = [pc EXCEPT ![p] = AfterItem(p, frame[p].i + 1)]
    /\ UNCHANGED <<destroy_ids, result>>

\* The body of the 'create loop up to the call of copy_message.
NextItem(p) ==
    /\ pc[p] = "loop"
    /\ LET v == ValidateItem(Item(p), env[p])
       IN  IF IsSome(v.error)
           THEN RejectItem(p, Unwrap(v.error))
           ELSE /\ frame' = [frame EXCEPT ![p].mailboxes = v.mailboxes,
                                          ![p].keywords = v.keywords,
                                          ![p].received_at = v.received_at]
                /\ pc' = [pc EXCEPT ![p] = "copy_message"]
                /\ UNCHANGED <<response, destroy_ids, result>>
    /\ UNCHANGED <<store_vars, request, access_token, env, next_call, ops, committed>>

\* What email_copy does with the result of copy_message: the created or
\* not_created entry, then the destroy list.
AddResponse(p, ok, value) ==
    /\ response' = [response EXCEPT ![p] =
            IF ok THEN [@ EXCEPT !.created = Append(@, [id |-> Item(p).id, email |-> value])]
                  ELSE [@ EXCEPT !.not_created = Append(@, NotCreated(Item(p).id, value))]]
    /\ destroy_ids' = [destroy_ids EXCEPT ![p] =
            IF env[p].on_success_delete THEN Append(@, Item(p).id) ELSE @]
    /\ frame' = [frame EXCEPT ![p] = [NoFrame EXCEPT !.i = frame[p].i + 1]]
    /\ pc' = [pc EXCEPT ![p] = AfterItem(p, frame[p].i + 1)]
    /\ UNCHANGED result

\* Faulty variant of IsOverQuota: a message that fills the quota exactly is rejected.
IsOverQuotaInclusive(account_quota, size, used_quota) ==
    account_quota > 0 /\ size + used_quota >= account_quota

\* The quota check of copy_message: a quota of 0 is no limit.
IsOverQuota(account_quota, size, used_quota) ==
    account_quota > 0 /\ size + used_quota > account_quota

\* copy_message: the source's metadata and term index, then the quota check.
CopyMessage(p) ==
    /\ pc[p] = "copy_message"
    /\ Issue(p, "read")
    /\ \E stored \in BOOLEAN :
        LET metadata == SourceMetadata(request[p].from_account_id, Item(p).id)
            quota == env[p].account_quota
        IN  IF ~stored
            THEN Abort(p, "StoreError") /\ UNCHANGED <<response, destroy_ids, frame>>
            ELSE IF ~IsSome(metadata)
            THEN AddResponse(p, FALSE, SetError("notFound", ""))
            ELSE IF IsOverQuota(quota, Unwrap(metadata).size, GetUsedQuota(request[p].account_id))
            THEN AddResponse(p, FALSE, SetError("overQuota", ""))
            ELSE /\ frame' = [frame EXCEPT ![p].metadata =
                        Some([Unwrap(metadata) EXCEPT !.received_at =
                                 IF IsSome(frame[p].received_at) THEN frame[p].received_at ELSE @])]
                 /\ pc' = [pc EXCEPT ![p] =
                        IF Unwrap(metadata).references # <<>>
                        THEN "find_thread" ELSE "assign_email_id"]
                 /\ UNCHANGED <<response, destroy_ids, result>>
    /\ UNCHANGED <<store_vars, request, access_token, env, next_call, committed>>

\* find_or_merge_thread for a message that has reference values.
FindThread(p) ==
    /\ pc[p] = "find_thread"
    /\ Issue(p, "read")
    /\ \E stored \in BOOLEAN :
        IF ~stored
        THEN Abort(p, "ServerPartialFail") /\ UNCHANGED frame
        ELSE /\ frame' = [frame EXCEPT ![p].thread_id =
                    FindOrMergeThread(request[p].account_id,
                                      Unwrap(frame[p].metadata).references)]
             /\ pc' = [pc EXCEPT ![p] = "assign_email_id"]
             /\ UNCHANGED result
    /\ UNCHANGED <<store_vars, request, access_token, env, response, destroy_ids, next_call,
                   committed>>

\* assign_document_id(account_id, collection): the next free document id.
AssignDocumentId(account_id, collection) ==
    document_ids' = [document_ids EXCEPT ![account_id][collection] = @ + 1]

\* assign_document_id(account_id, Email)
AssignEmailId(p) ==
    /\ pc[p] = "assign_email_id"
    /\ Issue(p, "assign_document_id")
    /\ \E stored \in BOOLEAN :
        IF ~stored
        THEN Abort(p, "StoreError") /\ UNCHANGED <<frame, document_ids>>
        ELSE /\ AssignDocumentId(request[p].account_id, "Email")
             /\ frame' = [frame EXCEPT ![p].message_id =
                              document_ids'[request[p].account_id]["Email"]]
             /\ pc' = [pc EXCEPT ![p] = "copy_blob"]
             /\ UNCHANGED result
    /\ UNCHANGED <<change_id, changes, emails, threads, blobs, request, access_token, env,
                   response, destroy_ids, next_call, committed>>

\* store.copy_blob: the target's blob becomes a link to the source's.
CopyBlob(p) ==
    /\ pc[p] = "copy_blob"
    /\ Issue(p, "copy_blob")
    /\ \E stored \in BOOLEAN :
        IF ~stored
        THEN Abort(p, "ServerPartialFail") /\ UNCHANGED blobs
        ELSE /\ blobs' = blobs \cup
                    {[account_id |-> request[p].account_id,
                      document_id |-> frame[p].message_id,
                      linked_to |-> <<request[p].from_account_id, Item(p).id>>]}
             /\ pc' = [pc EXCEPT ![p] = "begin_changes"]
             /\ UNCHANGED result
    /\ UNCHANGED <<change_id, changes, emails, threads, document_ids, request, access_token,
                   env, response, destroy_ids, next_call, frame, committed>>

\* Faulty variant of BeginChanges: the thread entry is written to the change
\* log at once instead of travelling with the batch.
BeginChangesLogged(p) ==
    /\ pc[p] = "begin_changes"
    /\ Issue(p, "begin_changes")
    /\ \E stored \in BOOLEAN :
        IF ~stored
        THEN Abort(p, "StoreError") /\ UNCHANGED <<frame, change_id, changes>>
        ELSE /\ change_id' = [change_id EXCEPT ![request[p].account_id] = @ + 1]
             /\ frame' = [frame EXCEPT
                    ![p].change_id = change_id'[request[p].account_id],
                    ![p].log = IF IsSome(frame[p].thread_id)
                               THEN {Entry("child_update", "Thread",
                                           DocId(Unwrap(frame[p].thread_id)))}
                               ELSE {}]
             /\ changes' = [changes EXCEPT ![request[p].account_id] =
                    @ \cup {Committed(change_id'[request[p].account_id], e) :
                              e \in frame'[p].log}]
             /\ pc' = [pc EXCEPT ![p] =
                    IF IsSome(frame[p].thread_id) THEN "write" ELSE "assign_thread_id"]
             /\ UNCHANGED result
    /\ UNCHANGED <<emails, threads, document_ids, blobs, request, access_token, env,
                   response, destroy_ids, next_call, committed>>

\* Faulty variant of BeginChanges: a thread is allocated even when one was found.
BeginChangesAlsoCreates(p) ==
    /\ pc[p] = "begin_changes"
    /\ Issue(p, "begin_changes")
    /\ \E stored \in BOOLEAN :
        IF ~stored
        THEN Abort(p, "StoreError") /\ UNCHANGED <<frame, change_id>>
        ELSE /\ change_id' = [change_id EXCEPT ![request[p].account_id] = @ + 1]
             /\ frame' = [frame EXCEPT
                    ![p].change_id = change_id'[request[p].account_id],
                    ![p].log = IF IsSome(frame[p].thread_id)
                               THEN {Entry("child_update", "Thread",
                                           DocId(Unwrap(frame[p].thread_id)))}
                               ELSE {}]
             /\ pc' = [pc EXCEPT ![p] = "assign_thread_id"]
             /\ UNCHANGED result
    /\ UNCHANGED <<changes, emails, threads, document_ids, blobs, request, access_token, env,
                   response, destroy_ids, next_call, committed>>

\* Faulty variant of BeginChanges: a found thread is logged as inserted.
BeginChangesInsert(p) ==
    /\ pc[p] = "begin_changes"
    /\ Issue(p, "begin_changes")
    /\ \E stored \in BOOLEAN :
        IF ~stored
        THEN Abort(p, "StoreError") /\ UNCHANGED <<frame, change_id>>
        ELSE /\ change_id' = [change_id EXCEPT ![request[p].account_id] = @ + 1]
             /\ frame' = [frame EXCEPT
                    ![p].change_id = change_id'[request[p].account_id],
                    ![p].log = IF IsSome(frame[p].thread_id)
                               THEN {Entry("insert", "Thread",
                                           DocId(Unwrap(frame[p].thread_id)))}
                               ELSE {}]
             /\ pc' = [pc EXCEPT ![p] =
                    IF IsSome(frame[p].thread_id) THEN "write" ELSE "assign_thread_id"]
             /\ UNCHANGED result
    /\ UNCHANGED <<changes, emails, threads, document_ids, blobs, request, access_token, env,
                   response, destroy_ids, next_call, committed>>

\* begin_changes(account_id), and the thread entry when the thread exists.
BeginChanges(p) ==
    /\ pc[p] = "begin_changes"
    /\ Issue(p, "begin_changes")
    /\ \E stored \in BOOLEAN :
        IF ~stored
        THEN Abort(p, "StoreError") /\ UNCHANGED <<frame, change_id>>
        ELSE /\ change_id' = [change_id EXCEPT ![request[p].account_id] = @ + 1]
             /\ frame' = [frame EXCEPT
                    ![p].change_id = change_id'[request[p].account_id],
                    ![p].log = IF IsSome(frame[p].thread_id)
                               THEN {Entry("child_update", "Thread",
                                           DocId(Unwrap(frame[p].thread_id)))}
                               ELSE {}]
             /\ pc' = [pc EXCEPT ![p] =
                    IF IsSome(frame[p].thread_id) THEN "write" ELSE "assign_thread_id"]
             /\ UNCHANGED result
    /\ UNCHANGED <<changes, emails, threads, document_ids, blobs, request, access_token, env,
                   response, destroy_ids, next_call, committed>>

\* Faulty variant of AssignThreadId: the thread document is created by a
\* write of its own instead of joining the batch.
AssignThreadIdWritten(p) ==
    /\ pc[p] = "assign_thread_id"
    /\ Issue(p, "assign_document_id")
    /\ \E stored \in BOOLEAN :
        IF ~stored
        THEN Abort(p, "StoreError") /\ UNCHANGED <<frame, document_ids, threads>>
        ELSE /\ AssignDocumentId(request[p].account_id, "Thread")
             /\ LET thread_id == document_ids'[request[p].account_id]["Thread"]
                IN  /\ frame' = [frame EXCEPT
                            ![p].thread_id = Some(thread_id),
                            ![p].create_thread = Some(thread_id),
                            ![p].log = @ \cup {Entry("insert", "Thread", DocId(thread_id))}]
                    /\ threads' = [threads EXCEPT ![request[p].account_id] = @ \cup {thread_id}]
             /\ pc' = [pc EXCEPT ![p] = "write"]
             /\ UNCHANGED result
    /\ UNCHANGED <<change_id, changes, emails, blobs, request, access_token, env,
                   response, destroy_ids, next_call, committed>>

\* No thread was found: a new thread document joins the batch.
AssignThreadId(p) ==
    /\ pc[p] = "assign_thread_id"
    /\ Issue(p, "assign_document_id")
    /\ \E stored \in BOOLEAN :
        IF ~stored
        THEN Abort(p, "StoreError") /\ UNCHANGED <<frame, document_ids>>
        ELSE /\ AssignDocumentId(request[p].account_id, "Thread")
             /\ LET thread_id == document_ids'[request[p].account_id]["Thread"]
                IN  frame' = [frame EXCEPT
                        ![p].thread_id = Some(thread_id),
                        ![p].create_thread = Some(thread_id),
                        ![p].log = @ \cup {Entry("insert", "Thread", DocId(thread_id))}]
             /\ pc' = [pc EXCEPT ![p] = "write"]
             /\ UNCHANGED result
    /\ UNCHANGED <<change_id, changes, emails, threads, blobs, request, access_token, env,
                   response, destroy_ids, next_call, committed>>

\* The IngestedEmail copy_message returns.
IngestedEmail(p) ==
    [id |-> IdFromParts(Unwrap(frame[p].thread_id), frame[p].message_id),
     change_id |-> frame[p].change_id,
     blob_id |-> [account_id |-> request[p].account_id, document_id |-> frame[p].message_id],
     size |-> Unwrap(frame[p].metadata).size]

\* Faulty variant of Batch: the mailboxes of the message are not logged.
BatchUnlogged(p) ==
    [account_id |-> request[p].account_id,
     create_thread |-> frame[p].create_thread,
     email |-> [document_id |-> frame[p].message_id,
                thread_id |-> Unwrap(frame[p].thread_id),
                mailboxes |-> frame[p].mailboxes,
                keywords |-> frame[p].keywords,
                cid |-> frame[p].change_id,
                metadata |-> Unwrap(frame[p].metadata),
                term_index |-> <<request[p].from_account_id, Item(p).id>>],
     change_id |-> frame[p].change_id,
     log |-> frame[p].log
               \cup {Entry("insert", "Email", IngestedEmail(p).id)}]

\* The batch copy_message builds: the thread document if new, the message
\* document with its indexed values, the index payloads and the change log.
Batch(p) ==
    [account_id |-> request[p].account_id,
     create_thread |-> frame[p].create_thread,
     email |-> [document_id |-> frame[p].message_id,
                thread_id |-> Unwrap(frame[p].thread_id),
                mailboxes |-> frame[p].mailboxes,
                keywords |-> frame[p].keywords,
                cid |-> frame[p].change_id,
                metadata |-> Unwrap(frame[p].metadata),
                term_index |-> <<request[p].from_account_id, Item(p).id>>],
     change_id |-> frame[p].change_id,
     log |-> frame[p].log
               \cup {Entry("insert", "Email", IngestedEmail(p).id)}
               \cup {Entry("child_update", "Mailbox", DocId(frame[p].mailboxes[k])) :
                       k \in 1..Len(frame[p].mailboxes)}]

\* store.write(batch.build()) and the return of the created email.
Write(p) ==
    /\ pc[p] = "write"
    /\ Issue(p, "write")
    /\ \E stored \in BOOLEAN :
        IF ~stored
        THEN /\ Abort(p, "ServerPartialFail")
             /\ UNCHANGED <<changes, emails, threads, committed, response, destroy_ids, frame>>
        ELSE /\ WriteBatch(Batch(p))
             /\ committed' = [committed EXCEPT ![request[p].account_id] =
                                  @ \cup {frame[p].change_id}]
             /\ AddResponse(p, TRUE, IngestedEmail(p))
    /\ UNCHANGED <<change_id, document_ids, blobs, request, access_token, env, next_call>>

\* The Email/set call that destroys the copied originals.
DestroyCall(p) ==
    [name |-> "Email/set",
     account_id |-> request[p].from_account_id,
     if_in_state |-> request[p].destroy_from_if_in_state,
     create |-> None, update |-> None,
     destroy |-> destroy_ids[p]]

\* Faulty variant of StateChangeOf: the Thread type is left out.
StateChangeOfNoThread(account_id, cid) ==
    [account_id |-> account_id,
     changes |-> {<<"Email", cid>>, <<"Mailbox", cid>>}]

\* StateChange::new(account_id) with the three changed types.
StateChangeOf(account_id, cid) ==
    [account_id |-> account_id,
     changes |-> {<<"Email", cid>>, <<"Mailbox", cid>>, <<"Thread", cid>>}]

\* After the loop: the new state and the state change if anything was
\* created, the follow-up destroy call, and the response.
Finish(p) ==
    /\ pc[p] = "finish"
    /\ IF response[p].created # <<>>
       THEN /\ Issue(p, "get_state")
            /\ \E stored \in BOOLEAN :
                IF ~stored
                THEN Abort(p, "StoreError") /\ UNCHANGED <<response, next_call>>
                ELSE LET state == GetState(request[p].account_id, "Email")
                     IN  /\ response' = [response EXCEPT
                                ![p].new_state = state,
                                ![p].state_change =
                                    IF state.exact
                                    THEN Some(StateChangeOf(request[p].account_id, state.id))
                                    ELSE None]
                         /\ next_call' = [next_call EXCEPT ![p] =
                                IF env[p].on_success_delete /\ destroy_ids[p] # <<>>
                                THEN Some(DestroyCall(p)) ELSE @]
                         /\ Abort(p, "Ok")
       ELSE /\ next_call' = [next_call EXCEPT ![p] =
                   IF env[p].on_success_delete /\ destroy_ids[p] # <<>>
                   THEN Some(DestroyCall(p)) ELSE @]
            /\ Abort(p, "Ok")
            /\ UNCHANGED <<response, ops>>
    /\ UNCHANGED <<store_vars, request, access_token, env, destroy_ids, frame, committed>>

\* ------------------------------------------------------------ blob_upload

\* The calls of blob_upload that may run, each in its own slot.
Uploads == 1..MaxUploads
\* The callers: principal 1 is an ordinary user, principal 2 a super-user.
UploadTokens == {[primary_id |-> 1, is_super_user |-> FALSE],
                 [primary_id |-> 2, is_super_user |-> TRUE]}
Principals == {t.primary_id : t \in UploadTokens}
UploadAccounts == {1}
\* The data of an upload, by its length in bytes.
DataLengths == {20, 25}
UploadRequests == [access_token : UploadTokens, account_id : UploadAccounts, data : DataLengths]
\* The limits of the configuration; 0 is no limit on the temporary blobs.
UploadConfigs == [upload_tmp_quota_size : {0, 100}, upload_tmp_quota_amount : {0, 2},
                  concurrent_uploads : {1, 2}]
\* The temporary blobs an account may hold before the first call.
InitialTmpBlobs == {{}, {[id |-> 0, size |-> 80]}}

\* The build feature that lets tests switch the quota of uploads off.
test_mode == FALSE
\* The flag tests switch the quota with; it only exists with test_mode.
DISABLE_UPLOAD_QUOTA == TRUE

NoUpload == [access_token |-> [primary_id |-> 1, is_super_user |-> FALSE],
             account_id |-> 1, data |-> 0]
UploadOk(blob_id, size) ==
    [type |-> "Ok", error |-> "", limits |-> <<>>, blob_id |-> blob_id, size |-> size]
UploadErr(error, limits) ==
    [type |-> "Err", error |-> error, limits |-> limits, blob_id |-> 0, size |-> 0]
\* RequestError::over_blob_quota(max_files, max_bytes)
over_blob_quota(max_files, max_bytes) == UploadErr("over_blob_quota", <<max_files, max_bytes>>)

\* store.get_tmp_blob_usage: the number and the bytes of the account's temporary blobs.
RECURSIVE TotalBytes(_)
TotalBytes(bs) ==
    IF bs = {} THEN 0
    ELSE LET b == CHOOSE x \in bs : TRUE IN b.size + TotalBytes(bs \ {b})
GetTmpBlobUsage(account_id) ==
    <<Cardinality(tmp_blobs[account_id]), TotalBytes(tmp_blobs[account_id])>>

\* The drop of the _in_flight guard: a held slot goes back to the limiter.
Release(c) ==
    /\ in_flight' = IF guard[c]
                    THEN [in_flight EXCEPT ![upload[c].access_token.primary_id] = @ - 1]
                    ELSE in_flight
    /\ guard' = [guard EXCEPT ![c] = FALSE]

\* blob_upload returns: the guard goes out of scope.
Return(c, r) ==
    /\ upload_pc' = [upload_pc EXCEPT ![c] = "done"]
    /\ upload_result' = [upload_result EXCEPT ![c] = Some(r)]
    /\ Release(c)

IssueUpload(c, op) == upload_ops' = [upload_ops EXCEPT ![c] = Append(@, op)]

\* is_upload_allowed: a free slot of the principal's limiter is taken; with
\* none free a super-user goes on without a slot and anyone else is refused.
IsUploadAllowed(token) ==
    IF in_flight[token.primary_id] < config.concurrent_uploads THEN "slot"
    ELSE IF token.is_super_user THEN "unlimited"
    ELSE "limit"

\* Faulty variant of BlobUpload: the guard is dropped at once, the slot is not held.
BlobUploadUnheld(c) ==
    /\ upload_pc[c] = "idle"
    /\ \A b \in Uploads : b < c => upload_pc[b] # "idle"
    /\ \E r \in UploadRequests :
        /\ upload' = [upload EXCEPT ![c] = r]
        /\ IF IsUploadAllowed(r.access_token) = "limit"
           THEN /\ upload_pc' = [upload_pc EXCEPT ![c] = "done"]
                /\ upload_result' = [upload_result EXCEPT ![c] = Some(UploadErr("limit", <<>>))]
           ELSE /\ upload_pc' = [upload_pc EXCEPT ![c] = "get_tmp_blob_usage"]
                /\ UNCHANGED upload_result
    /\ UNCHANGED <<config, tmp_blobs, upload_ops, in_flight, guard>>

\* blob_upload up to its first await: the concurrency gate.
BlobUpload(c) ==
    /\ upload_pc[c] = "idle"
    /\ \A b \in Uploads : b < c => upload_pc[b] # "idle"
    /\ \E r \in UploadRequests :
        /\ upload' = [upload EXCEPT ![c] = r]
        /\ LET allowed == IsUploadAllowed(r.access_token)
           IN  IF allowed = "limit"
               THEN /\ upload_pc' = [upload_pc EXCEPT ![c] = "done"]
                    /\ upload_result' = [upload_result EXCEPT ![c] =
                                             Some(UploadErr("limit", <<>>))]
                    /\ UNCHANGED <<in_flight, guard>>
               ELSE /\ in_flight' = IF allowed = "slot"
                                    THEN [in_flight EXCEPT ![r.access_token.primary_id] = @ + 1]
                                    ELSE in_flight
                    /\ guard' = [guard EXCEPT ![c] = (allowed = "slot")]
                    /\ upload_pc' = [upload_pc EXCEPT ![c] = "get_tmp_blob_usage"]
                    /\ UNCHANGED upload_result
    /\ UNCHANGED <<config, tmp_blobs, upload_ops>>

\* Faulty variant of IsOverBlobQuota: an upload that fills a ceiling exactly is rejected.
IsOverBlobQuotaInclusive(total_files, total_bytes, len, token) ==
    /\ \/ config.upload_tmp_quota_size > 0
          /\ total_bytes + len >= config.upload_tmp_quota_size
       \/ config.upload_tmp_quota_amount > 0
          /\ total_files + 1 >= config.upload_tmp_quota_amount
    /\ ~token.is_super_user

\* The size and count test of blob_upload.
IsOverBlobQuota(total_files, total_bytes, len, token) ==
    /\ \/ config.upload_tmp_quota_size > 0
          /\ total_bytes + len > config.upload_tmp_quota_size
       \/ config.upload_tmp_quota_amount > 0
          /\ total_files + 1 > config.upload_tmp_quota_amount
    /\ ~token.is_super_user

\* Whether the over-quota error is returned: always, but for a test build
\* with the quota switched off.
ReturnsOverQuota == IF test_mode THEN ~DISABLE_UPLOAD_QUOTA ELSE TRUE

\* Faulty variant of CheckUsage: the slot is given back once the usage is known.
CheckUsageReleases(c) ==
    /\ upload_pc[c] = "get_tmp_blob_usage"
    /\ IssueUpload(c, "get_tmp_blob_usage")
    /\ \E stored \in BOOLEAN :
        IF ~stored
        THEN Return(c, UploadErr("internal_server_error", <<>>))
        ELSE LET usage == GetTmpBlobUsage(upload[c].account_id)
             IN  IF IsOverBlobQuota(usage[1], usage[2], upload[c].data, upload[c].access_token)
                    /\ ReturnsOverQuota
                 THEN Return(c, over_blob_quota(config.upload_tmp_quota_amount,
                                                config.upload_tmp_quota_size))
                 ELSE /\ upload_pc' = [upload_pc EXCEPT ![c] = "put_blob"]
                      /\ Release(c)
                      /\ UNCHANGED upload_result
    /\ UNCHANGED <<config, tmp_blobs, upload>>

\* Faulty variant of CheckUsage: the blob is stored before the usage is looked at.
CheckUsageAfterPut(c) ==
    /\ upload_pc[c] = "get_tmp_blob_usage"
    /\ IssueUpload(c, "get_tmp_blob_usage")
    /\ tmp_blobs' = [tmp_blobs EXCEPT ![upload[c].account_id] =
                         @ \cup {[id |-> c, size |-> upload[c].data]}]
    /\ \E stored \in BOOLEAN :
        IF ~stored
        THEN Return(c, UploadErr("internal_server_error", <<>>))
        ELSE LET usage == GetTmpBlobUsage(upload[c].account_id)
             IN  IF IsOverBlobQuota(usage[1], usage[2], upload[c].data, upload[c].access_token)
                    /\ ReturnsOverQuota
                 THEN Return(c, over_blob_quota(config.upload_tmp_quota_amount,
                                                config.upload_tmp_quota_size))
                 ELSE /\ upload_pc' = [upload_pc EXCEPT ![c] = "put_blob"]
                      /\ UNCHANGED <<in_flight, guard, upload_result>>
    /\ UNCHANGED <<config, upload>>

\* The usage lookup answers: the size and count gate.
CheckUsage(c) ==
    /\ upload_pc[c] = "get_tmp_blob_usage"
    /\ IssueUpload(c, "get_tmp_blob_usage")
    /\ \E stored \in BOOLEAN :
        IF ~stored
        THEN Return(c, UploadErr("internal_server_error", <<>>))
        ELSE LET usage == GetTmpBlobUsage(upload[c].account_id)
             IN  IF IsOverBlobQuota(usage[1], usage[2], upload[c].data, upload[c].access_token)
                    /\ ReturnsOverQuota
                 THEN Return(c, over_blob_quota(config.upload_tmp_quota_amount,
                                                config.upload_tmp_quota_size))
                 ELSE /\ upload_pc' = [upload_pc EXCEPT ![c] = "put_blob"]
                      /\ UNCHANGED <<in_flight, guard, upload_result>>
    /\ UNCHANGED <<config, tmp_blobs, upload>>

\* Faulty variant of PutBlob: a failed write leaves the slot taken.
PutBlobLeaks(c) ==
    /\ upload_pc[c] = "put_blob"
    /\ IssueUpload(c, "put_blob")
    /\ \E stored \in BOOLEAN :
        IF stored
        THEN /\ tmp_blobs' = [tmp_blobs EXCEPT ![upload[c].account_id] =
                                  @ \cup {[id |-> c, size |-> upload[c].data]}]
             /\ Return(c, UploadOk(c, upload[c].data))
        ELSE /\ upload_pc' = [upload_pc EXCEPT ![c] = "done"]
             /\ upload_result' = [upload_result EXCEPT ![c] =
                                      Some(UploadErr("internal_server_error", <<>>))]
             /\ UNCHANGED <<tmp_blobs, in_flight, guard>>
    /\ UNCHANGED <<config, upload>>

\* BlobId::temporary and store.put_blob: the blob is stored, or the write fails.
PutBlob(c) ==
    /\ upload_pc[c] = "put_blob"
    /\ IssueUpload(c, "put_blob")
    /\ \E stored \in BOOLEAN :
        IF stored
        THEN /\ tmp_blobs' = [tmp_blobs EXCEPT ![upload[c].account_id] =
                                  @ \cup {[id |-> c, size |-> upload[c].data]}]
             /\ Return(c, UploadOk(c, upload[c].data))
        ELSE /\ UNCHANGED tmp_blobs
             /\ Return(c, UploadErr("internal_server_error", <<>>))
    /\ UNCHANGED <<config, upload>>

\* The caller drops the call at one of its awaits: its locals are dropped.
Cancel(c) ==
    /\ upload_pc[c] \in {"get_tmp_blob_usage", "put_blob"}
    /\ upload_pc' = [upload_pc EXCEPT ![c] = "cancelled"]
    /\ Release(c)
    /\ UNCHANGED <<config, tmp_blobs, upload, upload_result, upload_ops>>

UploadIdle ==
    /\ in_flight = [pr \in Principals |-> 0]
    /\ upload = [c \in Uploads |-> NoUpload]
    /\ upload_pc = [c \in Uploads |-> "idle"]
    /\ guard = [c \in Uploads |-> FALSE]
    /\ upload_result = [c \in Uploads |-> None]
    /\ upload_ops = [c \in Uploads |-> <<>>]

\* ------------------------------------------------ WebSocketMessage::parse

\* JSON values, with the text that gives their length in bytes.
Str(text) == [kind |-> "string", text |-> text, items |-> <<>>]
Num(text) == [kind |-> "number", text |-> text, items |-> <<>>]
Null == [kind |-> "null", text |-> "null", items |-> <<>>]
Arr(items) == [kind |-> "array", text |-> "", items |-> items]

\* The members a message is made of: <<key, value>>.
Members ==
    {<<"@type", Str("Request")>>, <<"@type", Str("WebSocketPushEnable")>>,
     <<"@type", Str("WebSocketPushDisable")>>, <<"@type", Str("Other")>>,
     <<"@type", Null>>,
     <<"dataTypes", Arr(<<"Email">>)>>, <<"dataTypes", Null>>, <<"dataTypes", Str("Email")>>,
     <<"pushState", Str("s")>>, <<"pushState", Null>>, <<"pushState", Num("1")>>,
     <<"id", Str("r")>>, <<"id", Num("1")>>,
     <<"using", Arr(<<"core">>)>>, <<"methodCalls", Arr(<<"c1", "c2">>)>>,
     <<"foo", Null>>}
\* The messages: an object of some members, or a value that is no object,
\* followed by some bytes of whitespace.
Jsons ==
    [dict : {TRUE}, members : UNION {[1..n -> Members] : n \in 0..MaxMembers}, padding : {0, 1}]
        \cup [dict : {FALSE}, members : {<<>>}, padding : {0, 1}]
MaxSizes == {48, 100}
MaxCallsLimits == {1, 2}
\* The names of the data types a client may subscribe to.
TypeStates == {"Email", "Mailbox", "Thread"}
\* The keys of the embedded request.
RequestKeys == {"using", "methodCalls", "createdIds"}

\* json.len(): the bytes of the text.
RECURSIVE ItemsLen(_)
ItemsLen(items) ==
    IF items = <<>> THEN 0
    ELSE Len(Head(items)) + 2 + (IF Len(items) > 1 THEN 1 ELSE 0) + ItemsLen(Tail(items))
ValueLen(v) ==
    CASE v.kind = "string" -> Len(v.text) + 2
      [] v.kind = "array" -> 2 + ItemsLen(v.items)
      [] OTHER -> Len(v.text)
RECURSIVE MembersLen(_)
MembersLen(members) ==
    IF members = <<>> THEN 0
    ELSE Len(Head(members)[1]) + 3 + ValueLen(Head(members)[2])
            + (IF Len(members) > 1 THEN 1 ELSE 0) + MembersLen(Tail(members))
JsonLen(j) == (IF j.dict THEN 2 + MembersLen(j.members) ELSE 4) + j.padding

\* The errors parse returns.
NoError == [p_type |-> "", limit |-> "", detail |-> ""]
\* RequestError::limit(RequestLimitError::...)
limit(kind) == [p_type |-> "limit", limit |-> kind, detail |-> ""]
\* RequestError::not_request(detail)
not_request(detail) == [p_type |-> "not_request", limit |-> "", detail |-> detail]
\* An error of the JSON parser, as the request error it is turned into.
ParserError(detail) == [p_type |-> "parse_error", limit |-> "", detail |-> detail]

\* Request::default() and WebSocketPushEnable::default()
DefaultRequest == [using |-> <<>>, method_calls |-> <<>>]
DefaultPushEnable == [data_types |-> <<>>, push_state |-> None]

\* The locals of parse, the tokens the parser has read and the keys handed
\* to Request::parse_key.
NewParse ==
    [message_type |-> "None",
     request |-> [id |-> None, request |-> DefaultRequest],
     push_enable |-> DefaultPushEnable,
     found_request_keys |-> FALSE, found_push_keys |-> FALSE,
     error |-> NoError, parser |-> TRUE, tokens |-> 0, forwarded |-> <<>>]

\* The message type a @type string stands for.
MessageType(rt) ==
    CASE rt = "Request" -> "Request"
      [] rt = "WebSocketPushEnable" -> "PushEnable"
      [] rt = "WebSocketPushDisable" -> "PushDisable"
      [] OTHER -> "None"

\* Request::parse_key: a key of the request is parsed and reported as
\* found, any other key is skipped.
ParseKey(st0, key, value, calls) ==
    LET st == [st0 EXCEPT !.forwarded = Append(@, key)]
    IN  IF key \notin RequestKeys THEN st
        ELSE IF value.kind # "array"
        THEN [st EXCEPT !.error = ParserError(key)]
        ELSE IF key = "methodCalls" /\ Len(value.items) > calls
        THEN [st EXCEPT !.error = limit("CallsIn")]
        ELSE [st EXCEPT !.found_request_keys = TRUE,
                        !.request.request =
                            IF key = "using" THEN [@ EXCEPT !.using = value.items]
                            ELSE IF key = "methodCalls"
                            THEN [@ EXCEPT !.method_calls = value.items]
                            ELSE @]

\* <Option<Vec<TypeState>>>::parse: null, or an array of data type names.
IsTypeStates(value) ==
    \/ value.kind = "null"
    \/ value.kind = "array" /\ Range(value.items) \subseteq TypeStates

\* Faulty variant of ParseMember: an id that is no string goes to the request parser.
ParseMemberForwardsId(st0, key, value, calls) ==
    LET st == [st0 EXCEPT !.tokens = @ + 2]
    IN  CASE key = "@type" ->
                IF value.kind = "string"
                THEN [st EXCEPT !.message_type = MessageType(value.text)]
                ELSE [st EXCEPT !.error = ParserError("@type")]
          [] key = "dataTypes" ->
                IF IsTypeStates(value)
                THEN [st EXCEPT !.push_enable.data_types = value.items,
                                !.found_push_keys = TRUE]
                ELSE [st EXCEPT !.error = ParserError("dataTypes")]
          [] key = "pushState" ->
                IF value.kind \in {"string", "null"}
                THEN [st EXCEPT !.push_enable.push_state =
                                    IF value.kind = "string" THEN Some(value.text) ELSE None,
                                !.found_push_keys = TRUE]
                ELSE [st EXCEPT !.error = ParserError("pushState")]
          [] key = "id" /\ value.kind = "string" ->
                [st EXCEPT !.request.id = Some(value.text)]
          [] OTHER -> ParseKey(st, key, value, calls)

\* Faulty variant of ParseMember: @type forgets the keys found before it.
ParseMemberTypeFirst(st0, key, value, calls) ==
    LET st == [st0 EXCEPT !.tokens = @ + 2]
    IN  CASE key = "@type" ->
                IF value.kind = "string"
                THEN [st EXCEPT !.message_type = MessageType(value.text),
                                !.found_push_keys = FALSE, !.found_request_keys = FALSE]
                ELSE [st EXCEPT !.error = ParserError("@type")]
          [] key = "dataTypes" ->
                IF IsTypeStates(value)
                THEN [st EXCEPT !.push_enable.data_types = value.items,
                                !.found_push_keys = TRUE]
                ELSE [st EXCEPT !.error = ParserError("dataTypes")]
          [] key = "pushState" ->
                IF value.kind \in {"string", "null"}
                THEN [st EXCEPT !.push_enable.push_state =
                                    IF value.kind = "string" THEN Some(value.text) ELSE None,
                                !.found_push_keys = TRUE]
                ELSE [st EXCEPT !.error = ParserError("pushState")]
          [] key = "id" ->
                IF value.kind \in {"string", "null"}
                THEN [st EXCEPT !.request.id =
                                    IF value.kind = "string" THEN Some(value.text) ELSE None]
                ELSE [st EXCEPT !.error = ParserError("id")]
          [] OTHER -> ParseKey(st, key, value, calls)

\* One turn of the loop of parse: the key and its value.
ParseMember(st0, key, value, calls) ==
    LET st == [st0 EXCEPT !.tokens = @ + 2]
    IN  CASE key = "@type" ->
                IF value.kind = "string"
                THEN [st EXCEPT !.message_type = MessageType(value.text)]
                ELSE [st EXCEPT !.error = ParserError("@type")]
          [] key = "dataTypes" ->
                IF IsTypeStates(value)
                THEN [st EXCEPT !.push_enable.data_types = value.items,
                                !.found_push_keys = TRUE]
                ELSE [st EXCEPT !.error = ParserError("dataTypes")]
          [] key = "pushState" ->
                IF value.kind \in {"string", "null"}
                THEN [st EXCEPT !.push_enable.push_state =
                                    IF value.kind = "string" THEN Some(value.text) ELSE None,
                                !.found_push_keys = TRUE]
                ELSE [st EXCEPT !.error = ParserError("pushState")]
          [] key = "id" ->
                IF value.kind \in {"string", "null"}
                THEN [st EXCEPT !.request.id =
                                    IF value.kind = "string" THEN Some(value.text) ELSE None]
                ELSE [st EXCEPT !.error = ParserError("id")]
          [] OTHER -> ParseKey(st, key, value, calls)

\* The loop of parse: it ends at the first error.
RECURSIVE ParseMembers(_, _, _)
ParseMembers(st, members, calls) ==
    IF members = <<>> \/ st.error # NoError THEN st
    ELSE ParseMembers(ParseMember(st, Head(members)[1], Head(members)[2], calls),
                      Tail(members), calls)

\* What parse returns.
Parsed(type, st) ==
    [type |-> type,
     request |-> IF type = "Request" THEN st.request ELSE NewParse.request,
     push_enable |-> IF type = "PushEnable" THEN st.push_enable ELSE DefaultPushEnable,
     error |-> NoError, parser |-> st.parser, tokens |-> st.tokens,
     forwarded |-> st.forwarded]
ParseErr(error, st) ==
    [type |-> "Err", request |-> NewParse.request, push_enable |-> DefaultPushEnable,
     error |-> error, parser |-> st.parser, tokens |-> st.tokens,
     forwarded |-> st.forwarded]

\* Faulty variant of Dispatch: an enable message needs none of the push keys.
DispatchAnyEnable(st) ==
    IF st.message_type = "Request" /\ st.found_request_keys
    THEN Parsed("Request", st)
    ELSE IF st.message_type = "PushEnable"
    THEN Parsed("PushEnable", st)
    ELSE IF st.message_type = "PushDisable" /\ ~st.found_request_keys /\ ~st.found_push_keys
    THEN Parsed("PushDisable", st)
    ELSE ParseErr(not_request("Invalid WebSocket JMAP request"), st)

\* The match at the end of parse: the declared type against the keys found.
Dispatch(st) ==
    IF st.message_type = "Request" /\ st.found_request_keys
    THEN Parsed("Request", st)
    ELSE IF st.message_type = "PushEnable" /\ st.found_push_keys
    THEN Parsed("PushEnable", st)
    ELSE IF st.message_type = "PushDisable" /\ ~st.found_request_keys /\ ~st.found_push_keys
    THEN Parsed("PushDisable", st)
    ELSE ParseErr(not_request("Invalid WebSocket JMAP request"), st)

\* Faulty variant of parse: a message of exactly max_size bytes is refused.
parseBelow(j, calls, size) ==
    IF JsonLen(j) < size
    THEN IF ~j.dict
         THEN ParseErr(ParserError("DictStart"), [NewParse EXCEPT !.tokens = 1])
         ELSE LET st == ParseMembers([NewParse EXCEPT !.tokens = 1], j.members, calls)
              IN  IF st.error # NoError THEN ParseErr(st.error, st) ELSE Dispatch(st)
    ELSE ParseErr(limit("SizeRequest"), [NewParse EXCEPT !.parser = FALSE])

\* WebSocketMessage::parse(json, max_calls, max_size)
parse(j, calls, size) ==
    IF JsonLen(j) <= size
    THEN IF ~j.dict
         THEN ParseErr(ParserError("DictStart"), [NewParse EXCEPT !.tokens = 1])
         ELSE LET st == ParseMembers([NewParse EXCEPT !.tokens = 1], j.members, calls)
              IN  IF st.error # NoError THEN ParseErr(st.error, st) ELSE Dispatch(st)
    ELSE ParseErr(limit("SizeRequest"), [NewParse EXCEPT !.parser = FALSE])

\* A message arrives and is parsed.
Parse ==
    /\ ws_pc = "start"
    /\ message' = Some(parse(json, max_calls, max_size))
    /\ ws_pc' = "done"
    /\ UNCHANGED <<json, max_calls, max_size>>

\* ------------------------------------------------------- specifications

\* No call of email_copy runs.
CopyIdle ==
    /\ InitStore(EmptyStore)
    /\ InitCalls
    /\ request = [p \in Procs |-> NoRequest]
    /\ access_token = [p \in Procs |-> [is_shared |-> FALSE, quota |-> 0]]
    /\ pc = [p \in Procs |-> "idle"]

\* No call of blob_upload runs.
NoUploads ==
    /\ UploadIdle
    /\ config = [upload_tmp_quota_size |-> 0, upload_tmp_quota_amount |-> 0,
                 concurrent_uploads |-> 1]
    /\ tmp_blobs = [a \in UploadAccounts |-> {}]

\* No message arrives.
NoMessage ==
    /\ json = [dict |-> TRUE, members |-> <<>>, padding |-> 0]
    /\ max_calls = 1
    /\ max_size = 0
    /\ ws_pc = "idle"
    /\ message = None

\* The calls of email_copy.
Init ==
    /\ \E s \in InitialStores : InitStore(s)
    /\ InitCalls
    /\ (InitAlone \/ InitConcurrent)
    /\ NoUploads
    /\ NoMessage

Next ==
    \E p \in Procs :
        \/ EmailCopy(p) /\ UNCHANGED <<upload_vars, ws_vars>>
        \/ AssertState(p) /\ UNCHANGED <<upload_vars, ws_vars>>
        \/ Prelude(p) /\ UNCHANGED <<upload_vars, ws_vars>>
        \/ NextItem(p) /\ UNCHANGED <<upload_vars, ws_vars>>
        \/ CopyMessage(p) /\ UNCHANGED <<upload_vars, ws_vars>>
        \/ FindThread(p) /\ UNCHANGED <<upload_vars, ws_vars>>
        \/ AssignEmailId(p) /\ UNCHANGED <<upload_vars, ws_vars>>
        \/ CopyBlob(p) /\ UNCHANGED <<upload_vars, ws_vars>>
        \/ BeginChanges(p) /\ UNCHANGED <<upload_vars, ws_vars>>
        \/ AssignThreadId(p) /\ UNCHANGED <<upload_vars, ws_vars>>
        \/ Write(p) /\ UNCHANGED <<upload_vars, ws_vars>>
        \/ Finish(p) /\ UNCHANGED <<upload_vars, ws_vars>>

Spec == Init /\ [][Next]_vars

\* The calls of blob_upload.
InitUpload ==
    /\ CopyIdle
    /\ UploadIdle
    /\ config \in UploadConfigs
    /\ tmp_blobs \in [UploadAccounts -> InitialTmpBlobs]
    /\ NoMessage

NextUpload ==
    \E c \in Uploads :
        \/ BlobUpload(c) /\ UNCHANGED <<copy_vars, ws_vars>>
        \/ CheckUsage(c) /\ UNCHANGED <<copy_vars, ws_vars>>
        \/ PutBlob(c) /\ UNCHANGED <<copy_vars, ws_vars>>
        \/ Cancel(c) /\ UNCHANGED <<copy_vars, ws_vars>>

SpecUpload == InitUpload /\ [][NextUpload]_vars

\* The messages WebSocketMessage::parse is given.
InitWs ==
    /\ CopyIdle
    /\ NoUploads
    /\ json \in Jsons
    /\ max_calls \in MaxCallsLimits
    /\ max_size \in MaxSizes
    /\ ws_pc = "start"
    /\ message = None

NextWs == Parse /\ UNCHANGED <<copy_vars, upload_vars>>

SpecWs == InitWs /\ [][NextWs]_vars

\* ----------------------------------------------------------------- claims

Ended(p, outcome) == pc[p] = "done" /\ result[p] = Some(outcome)
SameAccounts(p) == request[p].account_id = request[p].from_account_id
Ids(entries) == {entries[k].id : k \in 1..Len(entries)}
IsPrefix(s, t) == Len(s) <= Len(t) /\ \A k \in 1..Len(s) : s[k] = t[k]
\* The place of source id in request.create (ids are distinct).
PlaceOf(p, id) == CHOOSE k \in 1..Len(request[p].create) : request[p].create[k].id = id
InRequestOrder(p, entries) ==
    \A j, k \in 1..Len(entries) : j < k => PlaceOf(p, entries[j].id) < PlaceOf(p, entries[k].id)

\* C1: a call whose account_id equals its from_account_id ends at once with
\* InvalidArguments: it issues no storage operation, processes no item,
\* builds no response and leaves next_call as it was.
C1_SameAccountRejected ==
    \A p \in Procs :
        (SameAccounts(p) /\ pc[p] # "start") =>
            /\ Ended(p, "InvalidArguments")
            /\ ops[p] = {}
            /\ frame[p] = NoFrame
            /\ response[p] = NoResponse
            /\ destroy_ids[p] = <<>>
            /\ next_call[p] = None
C1_Witness == \E p \in Procs : SameAccounts(p) /\ Ended(p, "InvalidArguments")

\* C2: the destroy list of an enqueued follow-up call is exactly the set of
\* source ids that this call copied (the keys of created).
C2_DestroyOnlyCopied ==
    \A p \in Procs :
        IsSome(next_call[p]) => Range(Unwrap(next_call[p]).destroy) = Ids(response[p].created)

\* C3: a returned call has enqueued the follow-up destroy call exactly when
\* on_success_destroy_original is true and at least one item was copied; the
\* call targets from_account_id, carries destroy_from_if_in_state and has no
\* create and no update.
C3_DestroyCallIffCopied ==
    \A p \in Procs :
        Ended(p, "Ok") =>
            /\ IsSome(next_call[p]) <=>
                   (request[p].on_success_destroy_original = Some(TRUE)
                    /\ response[p].created # <<>>)
            /\ IsSome(next_call[p]) =>
                   /\ Unwrap(next_call[p]).account_id = request[p].from_account_id
                   /\ Unwrap(next_call[p]).if_in_state = request[p].destroy_from_if_in_state
                   /\ Unwrap(next_call[p]).create = None
                   /\ Unwrap(next_call[p]).update = None

\* The store of account a as a reader sees it.
Visible(a) == <<emails[a], threads[a], changes[a]>>
\* Nothing of the batch in p's frame is visible in the target account.
NothingVisible(p) ==
    LET a == request[p].account_id
    IN  /\ \A e \in emails[a] : e.document_id # frame[p].message_id
        /\ Range(frame[p].create_thread) \cap threads[a] = {}
        /\ \A e \in changes[a] : e.change_id # frame[p].change_id
\* The whole batch of a created email is visible in the target account.
AllVisible(p, email) ==
    LET a == request[p].account_id
        docs == {e \in emails[a] : e.document_id = DocumentIdOf(email.id)}
    IN  /\ Cardinality(docs) = 1
        /\ \A e \in docs :
              /\ e.thread_id = email.id[1]
              /\ e.cid = email.change_id
              /\ e.mailboxes # <<>>
              /\ e.metadata.size = email.size
              /\ e.term_index[1] = request[p].from_account_id
              /\ \A k \in 1..Len(e.mailboxes) :
                    Committed(email.change_id, Entry("child_update", "Mailbox", DocId(e.mailboxes[k])))
                        \in changes[a]
        /\ Committed(email.change_id, Entry("insert", "Email", email.id)) \in changes[a]
        /\ \/ Committed(email.change_id, Entry("child_update", "Thread", DocId(email.id[1])))
                  \in changes[a]
           \/ /\ Committed(email.change_id, Entry("insert", "Thread", DocId(email.id[1])))
                     \in changes[a]
              /\ email.id[1] \in threads[a]

\* C4: the batch of copy_message is all-or-nothing.  A step changes the
\* visible store of an account only by making one whole batch visible; a
\* copy that ended in a store failure has left no document, no index value
\* and no change-log entry of its batch behind; every created email has its
\* whole batch visible.
C4_BatchAllOrNothing ==
    /\ [][\A a \in Accounts :
            Visible(a)' # Visible(a) =>
                \E p \in Procs :
                    /\ pc[p] = "write" /\ request[p].account_id = a
                    /\ result'[p] = None
                    /\ NothingVisible(p)
                    /\ emails'[a] = emails[a] \cup {Batch(p).email}
                    /\ threads'[a] = threads[a] \cup Range(Batch(p).create_thread)
                    /\ changes'[a] = changes[a]
                           \cup {Committed(Batch(p).change_id, e) : e \in Batch(p).log}]_vars
    /\ [](\A p \in Procs :
            /\ (pc[p] = "done" /\ result[p] # Some("Ok")) => NothingVisible(p)
            /\ \A k \in 1..Len(response[p].created) : AllVisible(p, response[p].created[k].email))
C4_Witness ==
    \E p \in Procs :
        /\ Ended(p, "ServerPartialFail") /\ "write" \in ops[p]
        /\ IsSome(frame[p].create_thread)
        /\ response[p].created # <<>>

PerItemErrors == {"notFound", "invalidResultReference", "invalidProperties", "forbidden", "overQuota"}

\* C5: a per-item failure is appended to not_created for that item and the
\* call goes on with the next item (or finishes); created only ever grows;
\* a call that returned a response has processed every item.
C5_ItemFailureContinues ==
    /\ [][\A p \in Procs :
            /\ IsPrefix(response[p].created, response'[p].created)
            /\ response'[p].not_created # response[p].not_created =>
                  /\ pc[p] \in {"loop", "copy_message"}
                  /\ response'[p].not_created =
                         Append(response[p].not_created,
                                response'[p].not_created[Len(response'[p].not_created)])
                  /\ response'[p].not_created[Len(response'[p].not_created)].id = Item(p).id
                  /\ response'[p].not_created[Len(response'[p].not_created)].error.type
                         \in PerItemErrors
                  /\ response'[p].created = response[p].created
                  /\ result'[p] = None
                  /\ frame'[p].i = frame[p].i + 1
                  /\ pc'[p] = AfterItem(p, frame[p].i + 1)]_vars
    /\ [](\A p \in Procs :
            /\ Ended(p, "Ok") =>
                  Len(response[p].created) + Len(response[p].not_created) = Len(request[p].create)
            /\ result[p] = None \/ Unwrap(result[p]) \notin PerItemErrors)
\* A returned call whose failed item came before its copied item.
C5_Witness ==
    \E p \in Procs :
        /\ Ended(p, "Ok")
        /\ Len(response[p].not_created) = 1 /\ Len(response[p].created) = 1
        /\ PlaceOf(p, response[p].not_created[1].id) < PlaceOf(p, response[p].created[1].id)

\* C6: when email_copy returns a response, every item of request.create is
\* in exactly one of created and not_created, and each of the two lists its
\* items in the order of the request.
C6_ExactlyOneMapping ==
    \A p \in Procs :
        Ended(p, "Ok") =>
            /\ Ids(response[p].created) \cup Ids(response[p].not_created) = Ids(request[p].create)
            /\ Ids(response[p].created) \cap Ids(response[p].not_created) = {}
            /\ Len(response[p].created) + Len(response[p].not_created) = Len(request[p].create)
            /\ InRequestOrder(p, response[p].created)
            /\ InRequestOrder(p, response[p].not_created)
C6_Witness ==
    \E p \in Procs :
        /\ Ended(p, "Ok")
        /\ response[p].created # <<>> /\ response[p].not_created # <<>>
        /\ Len(request[p].create) = MaxItems

\* C7: a returned response carries a StateChange exactly when something was
\* created; it is for the target account and covers exactly Email, Mailbox
\* and Thread at the change id of new_state, the Email state read after the
\* last item and not older than any created email; with nothing created
\* new_state is old_state and there is no StateChange.
C7_StateChangeIffCreated ==
    /\ [](\A p \in Procs :
            Ended(p, "Ok") =>
                /\ IsSome(response[p].state_change) <=> response[p].created # <<>>
                /\ response[p].created = <<>> => response[p].new_state = response[p].old_state
                /\ response[p].created # <<>> =>
                      /\ response[p].new_state.exact
                      /\ \A k \in 1..Len(response[p].created) :
                            response[p].created[k].email.change_id <= response[p].new_state.id
                      /\ Unwrap(response[p].state_change).account_id = request[p].account_id
                      /\ Unwrap(response[p].state_change).changes =
                             {<<t, response[p].new_state.id>> : t \in {"Email", "Mailbox", "Thread"}})
    /\ [][\A p \in Procs :
            (pc[p] = "finish" /\ result'[p] = Some("Ok") /\ response[p].created # <<>>) =>
                response'[p].new_state = GetState(request[p].account_id, "Email")]_vars
C7_Witness ==
    \E p \in Procs :
        /\ Ended(p, "Ok") /\ IsSome(response[p].state_change)
        /\ response[p].new_state # response[p].old_state
        /\ response[p].not_created # <<>>

ItemOps == {"read", "assign_document_id", "copy_blob", "begin_changes", "write"}

\* C8: a call whose supplied if_in_state differs from the target account's
\* Email state when assert_state reads it ends there with the state-conflict
\* error, having processed no item and issued no storage operation but that
\* read; no call gets past assert_state with a differing if_in_state.
C8_StateMismatchRejected ==
    /\ [][\A p \in Procs :
            (pc[p] = "assert_state" /\ pc'[p] # "assert_state"
             /\ IsSome(request[p].if_in_state)
             /\ Unwrap(request[p].if_in_state) # GetState(request[p].account_id, "Email")) =>
                /\ pc'[p] = "done"
                /\ result'[p] \in {Some("StateMismatch"), Some("StoreError")}]_vars
    /\ [](\A p \in Procs :
            /\ Ended(p, "StateMismatch") =>
                  /\ ops[p] = {"get_state"}
                  /\ frame[p] = NoFrame /\ response[p] = NoResponse
                  /\ destroy_ids[p] = <<>> /\ next_call[p] = None
            /\ (ops[p] \cap ItemOps # {} /\ IsSome(request[p].if_in_state)) =>
                  response[p].old_state = Unwrap(request[p].if_in_state))
C8_Witness ==
    \E p \in Procs :
        /\ Ended(p, "StateMismatch")
        /\ request[p].if_in_state = Some(Initial)
        /\ GetState(request[p].account_id, "Email") = Exact(1)

\* C9: for every account and collection the state get_state returns never
\* decreases, and a commit that logs a change for the collection makes it
\* strictly greater than it was before that commit.
C9_StateMonotonic ==
    [][\A a \in Accounts : \A c \in Collections :
          /\ StateLeq(StateOf(changes[a], c), StateOf(changes'[a], c))
          /\ (\E e \in changes'[a] \ changes[a] : e.collection = c) =>
                 StateLt(StateOf(changes[a], c), StateOf(changes'[a], c))]_vars

\* The change ids handed out by begin_changes whose batch is not committed.
Uncommitted(a) == (1..change_id[a]) \ committed[a]

\* C10: get_state never returns a change id whose batch store.write has not
\* committed, whatever happened to the copy after begin_changes.
C10_NoDirtyState ==
    \A a \in Accounts : \A c \in Collections :
        /\ GetState(a, c).exact => GetState(a, c).id \in committed[a]
        /\ \A e \in changes[a] : e.change_id \notin Uncommitted(a)
C10_Witness ==
    \E p \in Procs :
        /\ pc[p] = "done" /\ result[p] # Some("Ok")
        /\ "begin_changes" \in ops[p]
        /\ frame[p].change_id \in Uncommitted(request[p].account_id)
        /\ GetState(request[p].account_id, "Email").exact

\* The last entry of a list.
Last(s) == s[Len(s)]
\* Process p takes a step of copy_message's first part and the store answers.
QuotaStep(p) ==
    /\ pc[p] = "copy_message" /\ pc'[p] # "copy_message"
    /\ result'[p] = None
    /\ IsSome(SourceMetadata(request[p].from_account_id, Item(p).id))

\* C15: copy_message rejects an item with overQuota exactly when the quota is
\* greater than 0 and the source's size plus the target's used quota at that
\* moment exceeds it; the rejection allocates no document id and copies no
\* blob, goes to not_created for that item and lets the loop continue; an
\* accepted item goes on to the thread lookup or the id allocation.
C15_OverQuotaExactly ==
    /\ [][\A p \in Procs :
            QuotaStep(p) =>
                LET size == Unwrap(SourceMetadata(request[p].from_account_id, Item(p).id)).size
                    used == SumSizes(emails[request[p].account_id])
                    over == env[p].account_quota > 0 /\ size + used > env[p].account_quota
                IN  /\ over <=> response'[p].not_created # response[p].not_created
                    /\ over =>
                          /\ Last(response'[p].not_created) =
                                 NotCreated(Item(p).id, SetError("overQuota", ""))
                          /\ response'[p].created = response[p].created
                          /\ pc'[p] = AfterItem(p, frame[p].i + 1)
                          /\ UNCHANGED store_vars
                    /\ ~over => pc'[p] \in {"find_thread", "assign_email_id"}]_vars
    /\ [](\A p \in Procs : \A k \in 1..Len(response[p].not_created) :
            response[p].not_created[k].error.type = "overQuota" => env[p].account_quota > 0)
\* The second item is rejected because the first one filled the quota.
C15_Witness ==
    \E p \in Procs :
        /\ Ended(p, "Ok")
        /\ Len(response[p].created) = 1 /\ Len(response[p].not_created) = 1
        /\ response[p].not_created[1].error.type = "overQuota"
        /\ PlaceOf(p, response[p].created[1].id) < PlaceOf(p, response[p].not_created[1].id)
        /\ GetUsedQuota(request[p].account_id) = env[p].account_quota

\* The threads of the account's messages that share a reference with refs.
ThreadsSharing(a, refs) ==
    {e.thread_id : e \in {x \in emails[a] : Range(x.metadata.references) \cap Range(refs) # {}}}

C17_SharedReferenceSameThread ==
    \A a \in Accounts : \A e1, e2 \in emails[a] :
        Range(e1.metadata.references) \cap Range(e2.metadata.references) # {} =>
            e1.thread_id = e2.thread_id

\* ------------------------------------------------------------ blob_upload

UploadRunning(c) == upload_pc[c] \in {"get_tmp_blob_usage", "put_blob"}
UploadFailed(c, error) ==
    /\ upload_pc[c] = "done" /\ IsSome(upload_result[c])
    /\ Unwrap(upload_result[c]).type = "Err" /\ Unwrap(upload_result[c]).error = error
UploadSucceeded(c) ==
    /\ upload_pc[c] = "done" /\ IsSome(upload_result[c])
    /\ Unwrap(upload_result[c]).type = "Ok"
\* The usage lookup of call c answers in this step.
UsageStep(c) ==
    /\ upload_pc[c] = "get_tmp_blob_usage"
    /\ \/ upload_pc'[c] = "put_blob"
       \/ upload_pc'[c] = "done"
          /\ upload_result'[c] # Some(UploadErr("internal_server_error", <<>>))

\* C11: when the usage lookup answers, the upload is rejected with the
\* over-quota error carrying (upload_tmp_quota_amount, upload_tmp_quota_size)
\* exactly when the caller is not a super-user and either the size ceiling is
\* above 0 and total_bytes + len exceeds it, or the count ceiling is above 0
\* and total_files + 1 exceeds it; otherwise the upload goes on to put_blob.
\* A ceiling of 0 never rejects and an upload that lands on a ceiling passes.
C11_OverBlobQuotaExactly ==
    [][\A c \in Uploads :
          UsageStep(c) =>
              LET stored == tmp_blobs[upload[c].account_id]
                  total_files == Cardinality(stored)
                  total_bytes == TotalBytes(stored)
                  max_bytes == config.upload_tmp_quota_size
                  max_files == config.upload_tmp_quota_amount
                  over == /\ ~upload[c].access_token.is_super_user
                          /\ \/ max_bytes > 0 /\ total_bytes + upload[c].data > max_bytes
                             \/ max_files > 0 /\ total_files + 1 > max_files
              IN  /\ over <=> upload_result'[c] =
                                  Some(UploadErr("over_blob_quota", <<max_files, max_bytes>>))
                  /\ ~over <=> upload_pc'[c] = "put_blob"]_vars
\* With 80 of 100 bytes used, 20 bytes were admitted and 25 bytes rejected.
C11_Witness ==
    \E c, d \in Uploads :
        /\ config.upload_tmp_quota_size = 100
        /\ [id |-> 0, size |-> 80] \in tmp_blobs[1]
        /\ UploadSucceeded(c) /\ upload[c].data = 20
        /\ TotalBytes(tmp_blobs[upload[c].account_id]) = 100
        /\ UploadFailed(d, "over_blob_quota") /\ upload[d].data = 25

\* C12: a call that fails admission (the concurrency gate refuses, the
\* usage lookup fails or a ceiling is exceeded) returns the failure without
\* calling put_blob and without storing a blob, and a call that has returned
\* does nothing more.
C12_NoWriteOnRefusal ==
    /\ [][\A c \in Uploads :
            /\ (upload_pc[c] \in {"idle", "get_tmp_blob_usage"} /\ upload_pc'[c] = "done") =>
                  /\ IsSome(upload_result'[c])
                  /\ Unwrap(upload_result'[c]).type = "Err"
                  /\ tmp_blobs' = tmp_blobs
                  /\ upload_ops'[c] \in {<<>>, <<"get_tmp_blob_usage">>}
            /\ upload_pc[c] = "done" =>
                  /\ upload_pc'[c] = "done"
                  /\ upload_ops'[c] = upload_ops[c]
                  /\ upload_result'[c] = upload_result[c]]_vars
    /\ [](\A c \in Uploads :
            (UploadFailed(c, "limit") \/ UploadFailed(c, "over_blob_quota")) =>
                /\ \A a \in UploadAccounts : \A b \in tmp_blobs[a] : b.id # c
                /\ upload_ops[c] \in {<<>>, <<"get_tmp_blob_usage">>})
C12_Witness ==
    \E c, d \in Uploads :
        /\ UploadFailed(c, "limit") /\ upload_ops[c] = <<>>
        /\ UploadFailed(d, "over_blob_quota") /\ upload_ops[d] = <<"get_tmp_blob_usage">>
        /\ tmp_blobs[1] = {[id |-> 0, size |-> 80]}

\* The running calls of a principal that hold a slot of its limiter.
Holding(principal) ==
    {c \in Uploads : /\ UploadRunning(c) /\ guard[c]
                     /\ upload[c].access_token.primary_id = principal}

\* C13: the counter of a principal's limiter is the number of its running
\* calls that took a slot: a call that has returned (a result or any error)
\* or was cancelled at an await has given its slot back.
C13_SlotReleased ==
    /\ \A principal \in Principals : in_flight[principal] = Cardinality(Holding(principal))
    /\ \A c \in Uploads : ~UploadRunning(c) => ~guard[c]
\* One call was cancelled, one failed in put_blob, and no slot is taken.
C13_Witness ==
    \E c, d \in Uploads :
        /\ upload_pc[c] = "cancelled"
        /\ UploadFailed(d, "internal_server_error")
        /\ upload_ops[d] = <<"get_tmp_blob_usage", "put_blob">>
        /\ upload[c].access_token.primary_id = upload[d].access_token.primary_id
        /\ in_flight[upload[c].access_token.primary_id] = 0

\* C14: the running uploads of a principal that is not a super-user never
\* exceed concurrent_uploads.
C14_ConcurrentUploadsBounded ==
    \A t \in UploadTokens :
        ~t.is_super_user =>
            Cardinality({c \in Uploads : UploadRunning(c) /\ upload[c].access_token = t})
                <= config.concurrent_uploads
\* One upload runs and the next one of the same principal was refused.
C14_Witness ==
    \E c, d \in Uploads :
        /\ UploadRunning(c) /\ UploadFailed(d, "limit")
        /\ upload[c].access_token = upload[d].access_token
        /\ ~upload[c].access_token.is_super_user
        /\ in_flight[upload[c].access_token.primary_id] = config.concurrent_uploads

\* ------------------------------------------------ WebSocketMessage::parse

\* parse has returned m.
Returned(m) == ws_pc = "done" /\ message = Some(m)
\* The values the message gives for a key.
ValuesOf(key) == {json.members[i][2] : i \in {k \in 1..Len(json.members) : json.members[k][1] = key}}

\* C19: a message longer than max_size is refused with the limit error
\* SizeRequest, and for it no parser is made and no token is read; a message
\* of at most max_size bytes is handed to the parser, which reads its tokens.
C19_OversizeNotParsed ==
    \A m \in Range(message) :
        ws_pc = "done" =>
            IF JsonLen(json) > max_size
            THEN /\ m.type = "Err"
                 /\ m.error = [p_type |-> "limit", limit |-> "SizeRequest", detail |-> ""]
                 /\ ~m.parser /\ m.tokens = 0
            ELSE /\ m.parser /\ m.tokens >= 1
                 /\ m.error.limit # "SizeRequest"
\* A message one byte too long, which would have parsed, was refused.
C19_Witness ==
    \E m \in Range(message) :
        /\ Returned(m) /\ JsonLen(json) = max_size + 1 /\ json.padding = 1
        /\ m.error.limit = "SizeRequest"
        /\ parse(json, max_calls, max_size + 1).type = "PushEnable"

\* The message is an object within the size limit whose members all hold
\* values of the kind their key asks for.
WellFormed ==
    /\ json.dict /\ JsonLen(json) <= max_size
    /\ \A v \in ValuesOf("@type") : v.kind = "string"
    /\ \A v \in ValuesOf("dataTypes") :
           v.kind = "null" \/ (v.kind = "array" /\ Range(v.items) \subseteq TypeStates)
    /\ \A v \in ValuesOf("pushState") \cup ValuesOf("id") : v.kind \in {"string", "null"}
    /\ \A key \in RequestKeys : \A v \in ValuesOf(key) : v.kind = "array"
    /\ \A v \in ValuesOf("methodCalls") : Len(v.items) <= max_calls
\* The message declares the type WebSocketPushEnable.
DeclaresPushEnable == ValuesOf("@type") = {Str("WebSocketPushEnable")}

\* C20: a well-formed message of type WebSocketPushEnable is refused as not
\* a request when it holds neither dataTypes nor pushState, and is returned
\* as PushEnable when it holds at least one of them.
C20_PushEnableNeedsPushKey ==
    \A m \in Range(message) :
        (ws_pc = "done" /\ WellFormed /\ DeclaresPushEnable) =>
            IF ValuesOf("dataTypes") \cup ValuesOf("pushState") = {}
            THEN /\ m.type = "Err"
                 /\ m.error = [p_type |-> "not_request", limit |-> "",
                               detail |-> "Invalid WebSocket JMAP request"]
            ELSE m.type = "PushEnable"
\* An enable message that holds an id and request keys, but no push key, was refused.
C20_Witness ==
    \E m \in Range(message) :
        /\ Returned(m) /\ WellFormed /\ DeclaresPushEnable
        /\ ValuesOf("dataTypes") \cup ValuesOf("pushState") = {}
        /\ ValuesOf("using") # {}
        /\ m.error.p_type = "not_request"

\* The keys of the message, in its order.
KeysOf(members) == [i \in 1..Len(members) |-> members[i][1]]
RequestKeysPresent == \E key \in RequestKeys : ValuesOf(key) # {}
PushKeysPresent == ValuesOf("dataTypes") \cup ValuesOf("pushState") # {}

\* C21: a message is accepted as Request only if it holds request keys and
\* no push key, as PushEnable only if it holds push keys and no request key,
\* as PushDisable only if it holds neither, and never without a known @type.
C21_TypeMatchesKeys ==
    \A m \in Range(message) :
        ws_pc = "done" =>
            /\ m.type = "Request" => RequestKeysPresent /\ ~PushKeysPresent
            /\ m.type = "PushEnable" => PushKeysPresent /\ ~RequestKeysPresent
            /\ m.type = "PushDisable" => ~PushKeysPresent /\ ~RequestKeysPresent
            /\ m.type # "Err" =>
                   \E v \in ValuesOf("@type") :
                       v.kind = "string"
                       /\ v.text \in {"Request", "WebSocketPushEnable", "WebSocketPushDisable"}

ReservedKeys == {"@type", "dataTypes", "pushState", "id"}
NotReserved(key) == key \notin ReservedKeys
\* The keys of the message that are not reserved, in its order.
OtherKeys == SelectSeq(KeysOf(json.members), NotReserved)

\* C26: the keys handed to Request::parse_key are never @type, dataTypes,
\* pushState or id, and are, in order, all the other keys of the message
\* (up to the first error); a message is a Request only if one of the keys
\* handed over is a key of the request, so @type Request with an id alone
\* is refused.
C26_ReservedKeysNotForwarded ==
    \A m \in Range(message) :
        (ws_pc = "done" /\ json.dict /\ JsonLen(json) <= max_size) =>
            /\ Range(m.forwarded) \cap ReservedKeys = {}
            /\ IsPrefix(m.forwarded,
                        OtherKeys)
            /\ m.type # "Err" =>
                   m.forwarded = OtherKeys
            /\ m.type = "Request" => Range(m.forwarded) \cap RequestKeys # {}
            /\ (/\ Range(KeysOf(json.members)) \subseteq {"@type", "id"}
                /\ ValuesOf("@type") \subseteq {Str("Request")}) => m.type = "Err"
\* @type Request with an id and a key the request parser skips was refused.
C26_Witness ==
    \E m \in Range(message) :
        /\ Returned(m) /\ WellFormed
        /\ ValuesOf("@type") = {Str("Request")} /\ ValuesOf("id") = {Str("r")}
        /\ m.forwarded = <<"foo">>
        /\ m.error.p_type = "not_request"

\* The orders the members of a message can come in.
Orders(members) ==
    {[i \in 1..Len(members) |-> members[f[i]]] :
        f \in {g \in [1..Len(members) -> 1..Len(members)] :
                  \A i, k \in 1..Len(members) : g[i] = g[k] => i = k}}
\* What the caller gets: the variant with its values, or a refusal.
Outcome(m) == [type |-> m.type, request |-> m.request, push_enable |-> m.push_enable]
DistinctKeys == \A i, k \in 1..Len(json.members) :
                    json.members[i][1] = json.members[k][1] => i = k

\* C30: for a message whose keys are pairwise distinct, every order of its
\* members gives the same outcome: the same variant with the same id, data
\* types and push state, or a refusal in every order.
C30_KeyOrderIrrelevant ==
    \A m \in Range(message) :
        (ws_pc = "done" /\ DistinctKeys) =>
            \A members \in Orders(json.members) :
                Outcome(parse([json EXCEPT !.members = members], max_calls, max_size))
                    = Outcome(m)
\* An enable message with @type last and three keys was accepted.
C30_Witness ==
    \E m \in Range(message) :
        /\ Returned(m) /\ DistinctKeys /\ Len(json.members) = 3
        /\ json.members[3][1] = "@type"
        /\ m.type = "PushEnable" /\ m.push_enable.push_state = Some("s")

\* ------------------------------------------------------------ blob_upload

\* C25: a call issues a storage operation only while it runs, that is after
\* is_upload_allowed admitted it, and then it holds a slot of its
\* principal's limiter (a super-user may run without one); the slot is kept
\* from admission over both storage operations until the call ends, and a
\* call the gate refused has issued no operation.
C25_GateBeforeStorage ==
    /\ [][\A c \in Uploads :
            /\ upload_ops'[c] # upload_ops[c] =>
                  /\ UploadRunning(c)
                  /\ guard[c] \/ upload[c].access_token.is_super_user
                  /\ guard[c] => in_flight[upload[c].access_token.primary_id] >= 1
            /\ (UploadRunning(c) /\ upload_pc'[c] \in {"get_tmp_blob_usage", "put_blob"}) =>
                  guard'[c] = guard[c]]_vars
    /\ [](\A c \in Uploads :
            /\ (UploadRunning(c) /\ ~upload[c].access_token.is_super_user) => guard[c]
            /\ UploadFailed(c, "limit") => upload_ops[c] = <<>>)
\* A call holds the only slot while its put_blob is pending; another was refused.
C25_Witness ==
    \E c, d \in Uploads :
        /\ upload_pc[c] = "put_blob" /\ guard[c]
        /\ upload_ops[c] = <<"get_tmp_blob_usage">>
        /\ in_flight[upload[c].access_token.primary_id] = 1
        /\ UploadFailed(d, "limit") /\ upload_ops[d] = <<>>

\* C27: while only callers that are no super-user upload, the temporary
\* blobs of an account stay within each ceiling that is not 0.
C27_UsageWithinCeilings ==
    (\A c \in Uploads : ~upload[c].access_token.is_super_user) =>
        \A a \in UploadAccounts :
            /\ config.upload_tmp_quota_size > 0 =>
                   TotalBytes(tmp_blobs[a]) <= config.upload_tmp_quota_size
            /\ config.upload_tmp_quota_amount > 0 =>
                   Cardinality(tmp_blobs[a]) <= config.upload_tmp_quota_amount

\* ------------------------------------------------------------- email_copy

\* The item passes the checks email_copy makes before it copies: the source
\* is readable, there is a mailbox, every mailbox exists and, for a shared
\* account, is one the caller may add to.
Checked(p, id, mailboxes) ==
    /\ id \in ReadableMessages(request[p].from_account_id)
    /\ mailboxes # <<>>
    /\ Range(mailboxes) \subseteq ExistingMailboxes
    /\ access_token[p].is_shared => Range(mailboxes) \subseteq AddItemsMailboxes
\* The committed message that a created entry of the response stands for.
MessageOf(p, entry) ==
    CHOOSE e \in emails[request[p].account_id] : e.document_id = DocumentIdOf(entry.email.id)
CopyingPcs == {"copy_message", "find_thread", "assign_email_id", "copy_blob", "begin_changes",
               "assign_thread_id", "write"}

\* C22: an item reaches copy_message, where ids are allocated, the blob is
\* copied and the batch written, only if it passes the checks; an item the
\* loop turns down leaves the store untouched and issues no storage
\* operation; so every created message is one whose item passed them.
C22_OnlyCheckedItemsCopied ==
    /\ [][\A p \in Procs :
            (pc[p] = "loop" /\ frame'[p] # frame[p]) =>
                IF pc'[p] = "copy_message" /\ frame'[p].i = frame[p].i
                THEN Checked(p, Item(p).id, frame'[p].mailboxes)
                ELSE /\ UNCHANGED <<store_vars, committed>>
                     /\ ops'[p] = ops[p]
                     /\ response'[p].created = response[p].created]_vars
    /\ [](\A p \in Procs :
            /\ pc[p] \in CopyingPcs => Checked(p, Item(p).id, frame[p].mailboxes)
            /\ \A k \in 1..Len(response[p].created) :
                   Checked(p, response[p].created[k].id,
                           MessageOf(p, response[p].created[k]).mailboxes))
\* A shared caller: one item was copied, one was forbidden.
C22_Witness ==
    \E p \in Procs :
        /\ Ended(p, "Ok") /\ access_token[p].is_shared
        /\ Len(response[p].created) = 1 /\ Len(response[p].not_created) = 1
        /\ response[p].not_created[1].error.type = "forbidden"

\* The store.write of process p commits in this step.
Commits(p) == pc[p] = "write" /\ pc'[p] # "write" /\ result'[p] = None
\* The entries the step adds to the log of account a, for one collection.
Logged(a, collection) == {e \in changes'[a] \ changes[a] : e.collection = collection}

\* C23: the entries one copy commits are one Email insert of the new
\* message, one Thread entry and a Mailbox child-update per mailbox of the
\* message, all under the change id of begin_changes, which is also the
\* Cid stored with the message and the change_id of the created email.
C23_OneChangeIdPerCopy ==
    [][\A p \in Procs :
          Commits(p) =>
              LET a == request[p].account_id
                  cid == frame[p].change_id
                  email == Last(response'[p].created).email
              IN  /\ \A e \in changes'[a] \ changes[a] : e.change_id = cid
                  /\ Logged(a, "Email") = {Committed(cid, Entry("insert", "Email", email.id))}
                  /\ Cardinality(Logged(a, "Thread")) = 1
                  /\ Logged(a, "Mailbox") =
                         {Committed(cid, Entry("child_update", "Mailbox", DocId(m))) :
                             m \in Range(frame[p].mailboxes)}
                  /\ email.change_id = cid
                  /\ cid = change_id[a] \/ cid < change_id[a]
                  /\ \E e \in emails'[a] \ emails[a] :
                         e.document_id = DocumentIdOf(email.id) /\ e.cid = cid]_vars
\* A message in two mailboxes was committed: four entries under its change id.
C23_Witness ==
    \E p \in Procs : \E k \in 1..Len(response[p].created) :
        LET email == response[p].created[k].email
            a == request[p].account_id
        IN  /\ Len(MessageOf(p, response[p].created[k]).mailboxes) = 2
            /\ Cardinality({e \in changes[a] : e.change_id = email.change_id}) = 4

\* C24: when the lookup gave a thread, begin_changes logs a child-update
\* for it and no thread is allocated; when it gave none, or was not made
\* because the source has no references, a thread id is allocated, the
\* Thread document goes into the batch and its insert is logged.  The commit
\* then writes exactly one Thread entry: the child-update and no new thread,
\* or the insert together with the new thread.
C24_ThreadEntryByLookup ==
    [][\A p \in Procs :
          LET a == request[p].account_id
          IN  /\ (pc[p] = "copy_message" /\ pc'[p] = "assign_email_id") =>
                     Unwrap(frame'[p].metadata).references = <<>> /\ frame'[p].thread_id = None
              /\ (pc[p] = "begin_changes" /\ pc'[p] \notin {"begin_changes", "done"}) =>
                     IF IsSome(frame[p].thread_id)
                     THEN /\ pc'[p] = "write"
                          /\ frame'[p].log = {Entry("child_update", "Thread",
                                                    DocId(Unwrap(frame[p].thread_id)))}
                          /\ frame'[p].create_thread = None
                     ELSE /\ pc'[p] = "assign_thread_id"
                          /\ frame'[p].log = {}
              /\ (pc[p] = "assign_thread_id" /\ pc'[p] = "write") =>
                     LET t == document_ids[a]["Thread"] + 1
                     IN  /\ document_ids'[a]["Thread"] = t
                         /\ frame[p].thread_id = None
                         /\ frame'[p].thread_id = Some(t) /\ frame'[p].create_thread = Some(t)
                         /\ frame'[p].log = {Entry("insert", "Thread", DocId(t))}
              /\ Commits(p) =>
                     LET T == Unwrap(frame[p].thread_id)
                         cid == frame[p].change_id
                     IN  IF frame[p].create_thread = None
                         THEN /\ Logged(a, "Thread") =
                                     {Committed(cid, Entry("child_update", "Thread", DocId(T)))}
                              /\ threads'[a] = threads[a]
                         ELSE /\ Logged(a, "Thread") =
                                     {Committed(cid, Entry("insert", "Thread", DocId(T)))}
                              /\ frame[p].create_thread = Some(T)
                              /\ threads'[a] = threads[a] \cup {T} /\ T \notin threads[a]]_vars
\* One call committed a message into a new thread and one into a thread found.
C24_Witness ==
    \E p \in Procs :
        /\ Len(response[p].created) = 2
        /\ \E k, j \in 1..2 :
             LET a == request[p].account_id
                 ek == response[p].created[k].email
                 ej == response[p].created[j].email
             IN  /\ Committed(ek.change_id, Entry("insert", "Thread", DocId(ek.id[1])))
                        \in changes[a]
                 /\ Committed(ej.change_id, Entry("child_update", "Thread", DocId(ej.id[1])))
                        \in changes[a]

\* C28: when a call has ended, every message it committed is reported: the
\* call returned its response, with the message in created and a StateChange
\* at a state that is not below the message's change id.
C28_CommittedIsReported ==
    \A p \in Procs :
        (pc[p] = "done" /\ response[p].created # <<>>) =>
            /\ result[p] = Some("Ok")
            /\ IsSome(response[p].state_change)
            /\ \A k \in 1..Len(response[p].created) :
                   /\ MessageOf(p, response[p].created[k]) \in emails[request[p].account_id]
                   /\ StateLeq(Exact(response[p].created[k].email.change_id),
                               response[p].new_state)

\* C29: when a call that named if_in_state commits a message, the Email
\* changes already committed to the account are those of the state it named
\* and those of its own earlier commits.
C29_NoForeignCommit ==
    [][\A p \in Procs :
          (Commits(p) /\ IsSome(request[p].if_in_state)) =>
              LET a == request[p].account_id
                  named == Unwrap(request[p].if_in_state)
                  own == {response[p].created[k].email.change_id :
                             k \in 1..Len(response[p].created)}
              IN  \A e \in changes[a] :
                      e.collection = "Email" =>
                          \/ named.exact /\ e.change_id <= named.id
                          \/ e.change_id \in own]_vars

====
